---------------------------- MODULE Spec2Model ----------------------------
(***************************************************************************)
(* Model of the Sollumz web converter: the texture codec front end         *)
(* (lib/formats/dds-encoder.ts), the mesh extractor                        *)
(* (lib/parsers/model-parser.ts), the material store (lib/store.ts, with   *)
(* the shader catalog lib/shaders/shader-defs.ts), the document serializer *)
(* (lib/formats/ydr-xml.ts) and the export orchestrator                    *)
(* (lib/export/exporter.ts) driven by the export panel.                    *)
(*                                                                         *)
(* The specifications share the definitions:                               *)
(*   Spec        the store, the material editor and the export pipeline    *)
(*   SpecEdit    the store and the material editor once a model is         *)
(*               imported, with no export                                  *)
(*   SpecPanel   the export panel and its exports once a model is          *)
(*               imported, with no edit                                    *)
(*   SpecMesh    extractSubMesh applied to bounded geometries              *)
(*   SpecExtract extractModelData applied to bounded scenes, then the      *)
(*               store's importModel and material updates                  *)
(*   SpecCodec   encodeToDds applied to bounded source files               *)
(*   SpecBuild   buildDdsFile, its container fed back to encodeToDds       *)
(*   SpecBlock   compressBC1 and compressBC3 applied to bounded pictures   *)
(*   SpecFormat  the number formatter f applied to bounded decimals        *)
(*   SpecEscape  escXml inside generateYdrXml applied to bounded texts     *)
(* Text is modelled as a sequence of one-character strings, so that the    *)
(* regular-expression rewrites of the source are computed, not assumed.    *)
(***************************************************************************)
EXTENDS Integers, Sequences, FiniteSets, TLC

VARIABLES
  \* ---- lib/store.ts (zustand state) ----
  parsedModel,     \* ParsedModel | null
  materials,       \* MaterialConfig[]
  exportProgress,  \* ExportProgress | null
  exportName,      \* string
  \* ---- components ----
  error,           \* ExportPanel's error state
  picks,           \* TextureSlotEditor.handleFile calls awaiting getImageDimensions
  parsing,         \* an import awaits parseModelFile
  timers,          \* pending setTimeout(() => setExportProgress(null), 2000)
  \* ---- the exportYdr calls (the locals of each) ----
  ex,
  \* ---- history of the run ----
  edits,           \* user actions taken so far
  nexports,        \* exports started so far
  \* ---- SpecMesh: one extractSubMesh call ----
  geo,             \* the BufferGeometry and the group passed in
  mpc,             \* position of the call
  sub,             \* the ParsedMesh returned (or null)
  \* ---- SpecExtract: one extractModelData call, its Model imported ----
  scene,           \* the scene graph and the file name passed in
  xpc,             \* position of the call, then the last store call made
  xout,            \* the Model returned or the error thrown
  updates,         \* store updates made since importModel
  \* ---- SpecFormat: one call of the number formatter f ----
  fin,             \* the number passed in
  fpc,             \* position of the call
  fout,            \* the string returned
  \* ---- SpecEscape: one call of escXml ----
  tin,             \* the string passed in
  tpc,             \* position of the call
  tout,            \* the string returned
  \* ---- SpecCodec: one encodeToDds call ----
  cin,             \* the file and forceFormat passed in
  cpc,             \* position of the call
  cdec,            \* decodeImageToRGBA's locals
  cres,            \* the value returned
  \* ---- SpecBuild: one buildDdsFile call, its result fed to encodeToDds ----
  bin,             \* the width, height and format passed in
  bpc,             \* position of the call
  bout,            \* the compressed stream's length and the container built
  bback,           \* the forceFormat given and what encodeToDds returns for it
  \* ---- SpecBlock: one compressBC1 or compressBC3 call ----
  img,             \* the pixels, width, height and format passed in
  ipc,             \* position of the call
  iout             \* the bytes returned, with the locals of each block

storeVars == <<parsedModel, materials, exportProgress, exportName>>
uiVars    == <<error, picks, parsing, timers>>
mainVars  == <<parsedModel, materials, exportProgress, exportName, error, picks,
               parsing, timers, ex, edits, nexports>>
textVars  == <<fin, fpc, fout, tin, tpc, tout>>
meshVars  == <<geo, mpc, sub, scene, xpc, xout, updates, fin, fpc, fout, tin, tpc,
               tout>>
blockVars == <<img, ipc, iout>>
buildVars == <<bin, bpc, bout, bback, img, ipc, iout>>
codecVars == <<cin, cpc, cdec, cres, bin, bpc, bout, bback, img, ipc, iout>>
vars      == <<parsedModel, materials, exportProgress, exportName, error, picks,
               parsing, timers, ex, edits, nexports, geo, mpc, sub, scene, xpc,
               xout, updates, fin, fpc, fout, tin, tpc, tout, cin, cpc,
               cdec, cres, bin, bpc, bout, bback, img, ipc, iout>>

\* A value that may be null: <<>> is null, <<v>> is the value v.
None == <<>>
Some(v) == <<v>>
Get(o) == o[1]
\* No forceFormat argument.
Null == "null"

\* ------------------------------------------------------------------ bounds
\* Source image widths and heights 1..MaxDim are enumerated (plus a few
\* large ones around the 4096 cap).
MaxDim == 12
\* Length of the index buffer of an enumerated geometry.
MaxIndices == 4
\* Number of vertices of an enumerated geometry.
MaxVerts == 3
\* User actions (imports, resets, shader changes, texture picks) per run.
MaxEdits == 3
\* Exports started per run.
MaxExports == 1
\* Nodes of an enumerated scene.
MaxNodes == 2
\* Store updates (updateMaterialShader, updateMaterialTexture) after an import.
MaxUpdates == 3
\* Digits after the point of an enumerated number.
MaxFrac == 8
\* Characters of an enumerated text.
MaxText == 3
\* Pixels of an enumerated picture that are chosen freely.
MaxTexels == 3
\* Clicks on the export button in a run of the export panel alone.
MaxClicks == 3

\* ------------------------------------------------------------ small helpers
Min(a, b) == IF a < b THEN a ELSE b
Max(a, b) == IF a > b THEN a ELSE b
Range(s) == {s[i] : i \in 1..Len(s)}

\* Math.ceil(a / b) for integers a >= 0, b > 0.
CeilDiv(a, b) == (a + b - 1) \div b

\* Math.round(a / b) for integers a >= 0, b > 0 (round half up).
RoundDiv(a, b) == (2 * a + b) \div (2 * b)

\* ------------------------------------------------------------------- text
UpperChars == {"A", "B", "C", "D", "E", "F", "G", "H", "I", "J", "K", "L", "M",
               "N", "O", "P", "Q", "R", "S", "T", "U", "V", "W", "X", "Y", "Z"}
LowerChars == {"a", "b", "c", "d", "e", "f", "g", "h", "i", "j", "k", "l", "m",
               "n", "o", "p", "q", "r", "s", "t", "u", "v", "w", "x", "y", "z"}
DigitChars == {"0", "1", "2", "3", "4", "5", "6", "7", "8", "9"}

LowerOf ==
  [c \in UpperChars |->
     CASE c = "A" -> "a" [] c = "B" -> "b" [] c = "C" -> "c" [] c = "D" -> "d"
       [] c = "E" -> "e" [] c = "F" -> "f" [] c = "G" -> "g" [] c = "H" -> "h"
       [] c = "I" -> "i" [] c = "J" -> "j" [] c = "K" -> "k" [] c = "L" -> "l"
       [] c = "M" -> "m" [] c = "N" -> "n" [] c = "O" -> "o" [] c = "P" -> "p"
       [] c = "Q" -> "q" [] c = "R" -> "r" [] c = "S" -> "s" [] c = "T" -> "t"
       [] c = "U" -> "u" [] c = "V" -> "v" [] c = "W" -> "w" [] c = "X" -> "x"
       [] c = "Y" -> "y" [] c = "Z" -> "z"]

\* String.prototype.toLowerCase, one character.
ToLowerChar(c) == IF c \in UpperChars THEN LowerOf[c] ELSE c

\* /[^a-zA-Z0-9_]/ matches c.
NotWordChar(c) == c \notin (UpperChars \cup LowerChars \cup DigitChars \cup {"_"})

\* The position of the match of /\.[^/.]+$/ in s, or 0: a dot followed, up to
\* the end, by at least one character and by no dot and no slash.
ExtensionStart(s) ==
  LET hits == {i \in 1..Len(s) :
                 /\ s[i] = "."
                 /\ i < Len(s)
                 /\ \A j \in (i + 1)..Len(s) : s[j] \notin {".", "/"}}
  IN IF hits = {} THEN 0 ELSE CHOOSE i \in hits : TRUE

\* s.replace(/\.[^/.]+$/, "")
StripExtension(s) ==
  IF ExtensionStart(s) = 0 THEN s ELSE SubSeq(s, 1, ExtensionStart(s) - 1)

\* A faulty sanitizeTextureName that keeps the letter case.
SanitizeKeepCase(filename) ==
  LET stem == StripExtension(filename)
  IN [i \in 1..Len(stem) |-> IF NotWordChar(stem[i]) THEN "_" ELSE stem[i]]

\* sanitizeTextureName: strip the extension, replace every non-word
\* character by an underscore, lower-case.
sanitizeTextureName(filename) ==
  LET stem == StripExtension(filename)
  IN [i \in 1..Len(stem) |->
        ToLowerChar(IF NotWordChar(stem[i]) THEN "_" ELSE stem[i])]

\* `${texName}.dds`
DdsFileName(texName) == texName \o <<".", "d", "d", "s">>

\* ------------------------------------------------------------ texture codec
DDS_MAGIC == 542327876      \* 0x20534444
FOURCC_DXT1 == 827611204    \* 0x31545844
FOURCC_DXT5 == 894720068    \* 0x35545844
HeaderSize == 128
MaxTextureSize == 4096

\* isDdsFile: at least four bytes, the first four being the magic.
isDdsFile(data) == data.bytes >= 4 /\ data.magic = DDS_MAGIC

\* The loop `while (p < n) p *= 2`.
RECURSIVE Pow2Loop(_, _)
Pow2Loop(p, n) == IF p < n THEN Pow2Loop(p * 2, n) ELSE p

\* A faulty nearestPowerOf2 that always rounds up.
NearestPowerOf2Up(n) == IF n <= 0 THEN 1 ELSE Pow2Loop(1, n)

\* nearestPowerOf2. lower = p / 2 is a half for p = 1, so the comparisons are
\* made on doubled values: lower > 0 always holds, (n - lower) < (p - n) is
\* 2n - p < 2(p - n), and lower >= 4 is p >= 8.
nearestPowerOf2(n) ==
  IF n <= 0 THEN 1
  ELSE LET p == Pow2Loop(1, n)
       IN IF p > 0 /\ (2 * n - p) < 2 * (p - n) /\ p >= 8
          THEN p \div 2
          ELSE p

\* decodeImageToRGBA's img.onload: the rounded sizes (w0, h0), then the capped
\* ones; the canvas holds width * height pixels whose alpha bytes are those
\* of the decoded picture.
decodeImageToRGBA(data) ==
  LET w0 == nearestPowerOf2(data.w)
      h0 == nearestPowerOf2(data.h)
  IN [w0 |-> w0, h0 |-> h0,
      width |-> Min(w0, MaxTextureSize), height |-> Min(h0, MaxTextureSize),
      alphas |-> data.alphas]

\* A faulty hasAlpha that takes every alpha byte below 255 as transparent.
HasAlphaBelow255(alphas) == \E i \in 1..Len(alphas) : alphas[i] < 255

\* hasAlpha: some alpha byte below 250.
hasAlpha(alphas) == \E i \in 1..Len(alphas) : alphas[i] < 250

\* A faulty compressor that writes 8 bytes a block in both modes.
CompressedLengthBC1Only(width, height, format) ==
  Max(1, CeilDiv(width, 4)) * Max(1, CeilDiv(height, 4)) * 8

\* The length of compressBC1's (8 bytes a block) or compressBC3's (16) output.
CompressedLength(width, height, format) ==
  Max(1, CeilDiv(width, 4)) * Max(1, CeilDiv(height, 4))
    * (IF format = "DXT1" THEN 8 ELSE 16)

\* A file's bytes: a container header (magic, sizes, code) or a picture (what
\* the browser decodes it to); a field the bytes do not hold is zero.
Bytes(magic, bytes, height, width, linearSize, mipMapCount, fourCC, decodable, w, h, alphas) ==
  [magic |-> magic, bytes |-> bytes, height |-> height, width |-> width,
   linearSize |-> linearSize, mipMapCount |-> mipMapCount, fourCC |-> fourCC,
   decodable |-> decodable, w |-> w, h |-> h, alphas |-> alphas]

\* A faulty buildDdsFile that writes the width where the height goes.
BuildDdsFileSwapped(dataLen, width, height, format) ==
  Bytes(DDS_MAGIC, HeaderSize + dataLen, width, height,
        Max(1, CeilDiv(width, 4)) * Max(1, CeilDiv(height, 4))
          * (IF format = "DXT1" THEN 8 ELSE 16),
        1, IF format = "DXT1" THEN FOURCC_DXT1 ELSE FOURCC_DXT5, FALSE, 0, 0, <<>>)

\* buildDdsFile: the header fields written and the total length.
buildDdsFile(dataLen, width, height, format) ==
  Bytes(DDS_MAGIC, HeaderSize + dataLen, height, width,
        Max(1, CeilDiv(width, 4)) * Max(1, CeilDiv(height, 4))
          * (IF format = "DXT1" THEN 8 ELSE 16),
        1,
        IF format = "DXT1" THEN FOURCC_DXT1 ELSE FOURCC_DXT5,
        FALSE, 0, 0, <<>>)

\* A DataView read of four bytes at `at` throws on a shorter buffer.
CanRead(data, at) == data.bytes >= at + 4

\* The pass-through branch of encodeToDds (the file already is a container):
\* getDdsDimensions reads the height at 12 and the width at 16 of the first
\* 128 bytes, the four-character code is read at 84; forceFormat is not read.
PassThrough(data) ==
  IF ~(CanRead(data, 12) /\ CanRead(data, 16) /\ CanRead(data, 84))
  THEN [ok |-> FALSE]
  ELSE [ok |-> TRUE, dds |-> data,
        format |-> IF data.fourCC = FOURCC_DXT5 THEN "DXT5" ELSE "DXT1",
        width |-> data.width, height |-> data.height]

\* A faulty format choice that ignores forceFormat.
ChooseFormatIgnoringForce(forceFormat, alphas) ==
  IF hasAlpha(alphas) THEN "DXT5" ELSE "DXT1"

\* forceFormat || (hasAlpha(data) ? "DXT5" : "DXT1")
ChooseFormat(forceFormat, alphas) ==
  IF forceFormat # Null THEN forceFormat
  ELSE IF hasAlpha(alphas) THEN "DXT5" ELSE "DXT1"

\* The tail of encodeToDds once the picture is decoded: choose the format,
\* compress, build the container.
CompressAndBuild(dec, forceFormat) ==
  LET format == ChooseFormat(forceFormat, dec.alphas)
  IN [ok |-> TRUE,
      dds |-> buildDdsFile(CompressedLength(dec.width, dec.height, format),
                           dec.width, dec.height, format),
      format |-> format, width |-> dec.width, height |-> dec.height]

\* encodeToDds(file, forceFormat): [ok |-> FALSE] stands for a rejected
\* promise (an undecodable picture, a truncated container).
encodeToDds(file, forceFormat) ==
  IF isDdsFile(file.data) THEN PassThrough(file.data)
  ELSE IF ~file.data.decodable THEN [ok |-> FALSE]
  ELSE CompressAndBuild(decodeImageToRGBA(file.data), forceFormat)

\* Source files: a picture and a container.
Picture(name, w, h, alphas, decodable) ==
  [name |-> name,
   data |-> Bytes(0, 1000, 0, 0, 0, 0, 0, decodable, w, h, alphas)]

Container(name, bytes, w, h, fourCC) ==
  [name |-> name,
   data |-> Bytes(DDS_MAGIC, bytes, h, w, 0, 1, fourCC, FALSE, 0, 0, <<>>)]

\* ---------------------------------------------------------- block encoders
\* A two's complement integer of `width` bits as the set of the positions of
\* its 1 bits (position 0 the least significant): JavaScript's bitwise
\* operators work on 32 bits, BigInt's on as many as the value needs (64
\* hold every value formed here).
Int32Width == 32
BigIntWidth == 64

\* ToInt32 of a number 0 <= v < 2^31, or BigInt(v).
Word(v, width) == [width |-> width, bits |-> {k \in 0..30 : (v \div (2^k)) % 2 = 1}]

\* a << n: the bits that leave the width are lost.
ShiftLeft(w, n) ==
  [width |-> w.width, bits |-> {k + n : k \in {b \in w.bits : b + n < w.width}}]

\* a >> n: sign-propagating.
ShiftRight(w, n) ==
  [width |-> w.width,
   bits |-> {k - n : k \in {b \in w.bits : b >= n}}
              \cup (IF (w.width - 1) \in w.bits
                    THEN (w.width - n)..(w.width - 1) ELSE {})]

\* a | b and a & b.
BitOr(a, b) == [width |-> a.width, bits |-> a.bits \cup b.bits]
BitAnd(a, b) == [width |-> a.width, bits |-> a.bits \cap b.bits]

\* The number whose bits 0..k are those of w.
RECURSIVE LowBits(_, _)
LowBits(w, k) ==
  IF k < 0 THEN 0 ELSE (IF k \in w.bits THEN 2^k ELSE 0) + LowBits(w, k - 1)

\* The Number a non-negative 32-bit value stands for.
NumberOf(w) == LowBits(w, 30)

\* A store into a Uint8Array element keeps the low 8 bits.
ToUint8(w) == LowBits(w, 7)

\* colorTo565: ((r >> 3) << 11) | ((g >> 2) << 5) | (b >> 3)
colorTo565(r, g, b) ==
  NumberOf(BitOr(BitOr(ShiftLeft(ShiftRight(Word(r, Int32Width), 3), 11),
                       ShiftLeft(ShiftRight(Word(g, Int32Width), 2), 5)),
                 ShiftRight(Word(b, Int32Width), 3)))

\* A pixel, and extractBlock: the 16 pixels of the block at (px, py), texel
\* y * 4 + x at [y * 4 + x + 1], the coordinates clamped to the picture.
Texel(r, g, b, a) == [r |-> r, g |-> g, b |-> b, a |-> a]

extractBlock(data, width, height, px, py) ==
  [t \in 1..16 |->
     LET x == (t - 1) % 4
         y == (t - 1) \div 4
         sx == Min(px + x, width - 1)
         sy == Min(py + y, height - 1)
     IN data[sy * width + sx + 1]]

\* The smallest and the largest of a channel over the block.
MinOf(S) == CHOOSE m \in S : \A v \in S : m <= v
MaxOf(S) == CHOOSE m \in S : \A v \in S : m >= v

\* The bounding box of the block's colors, inset by a 16th of its extent.
InsetBox(block) ==
  LET rs == {block[t].r : t \in 1..16}
      gs == {block[t].g : t \in 1..16}
      bs == {block[t].b : t \in 1..16}
      insetR == NumberOf(ShiftRight(Word(MaxOf(rs) - MinOf(rs), Int32Width), 4))
      insetG == NumberOf(ShiftRight(Word(MaxOf(gs) - MinOf(gs), Int32Width), 4))
      insetB == NumberOf(ShiftRight(Word(MaxOf(bs) - MinOf(bs), Int32Width), 4))
  IN [minR |-> Min(255, MinOf(rs) + insetR), minG |-> Min(255, MinOf(gs) + insetG),
      minB |-> Min(255, MinOf(bs) + insetB),
      maxR |-> Max(0, MaxOf(rs) - insetR), maxG |-> Max(0, MaxOf(gs) - insetG),
      maxB |-> Max(0, MaxOf(bs) - insetB)]

\* A faulty endpoint choice that packs the low color first and, when the
\* packed values are out of order, swaps them but not the endpoints.
EndpointsPackedSwapOnly(box) ==
  LET color0 == colorTo565(box.minR, box.minG, box.minB)
      color1 == colorTo565(box.maxR, box.maxG, box.maxB)
  IN [c0 |-> IF color0 < color1 THEN color1 ELSE color0,
      c1 |-> IF color0 < color1 THEN color0 ELSE color1,
      ep0 |-> <<box.minR, box.minG, box.minB>>,
      ep1 |-> <<box.maxR, box.maxG, box.maxB>>]

\* The packed colors and the endpoints behind them, swapped together when
\* the packed high color is below the packed low color.
Endpoints(box) ==
  LET color0 == colorTo565(box.maxR, box.maxG, box.maxB)
      color1 == colorTo565(box.minR, box.minG, box.minB)
  IN IF color0 < color1
     THEN [c0 |-> color1, c1 |-> color0,
           ep0 |-> <<box.minR, box.minG, box.minB>>,
           ep1 |-> <<box.maxR, box.maxG, box.maxB>>]
     ELSE [c0 |-> color0, c1 |-> color1,
           ep0 |-> <<box.maxR, box.maxG, box.maxB>>,
           ep1 |-> <<box.minR, box.minG, box.minB>>]

\* The palette: the endpoints, then the colors a third and two thirds of the
\* way from the first to the second (entry j at [j + 1]).
Palette(ep0, ep1) ==
  << ep0, ep1,
     [c \in 1..3 |-> RoundDiv(2 * ep0[c] + ep1[c], 3)],
     [c \in 1..3 |-> RoundDiv(ep0[c] + 2 * ep1[c], 3)] >>

\* dr * dr + dg * dg + db * db
ColorDistance(texel, entry) ==
  (texel.r - entry[1]) * (texel.r - entry[1])
    + (texel.g - entry[2]) * (texel.g - entry[2])
    + (texel.b - entry[3]) * (texel.b - entry[3])

\* Math.abs(a - alphaPalette[j])
AlphaDistance(a, entry) == IF a >= entry THEN a - entry ELSE entry - a

\* A faulty search that lets a later entry at the same distance win.
RECURSIVE NearestLoopLast(_, _, _, _)
NearestLoopLast(dists, j, bestDist, bestIdx) ==
  IF j = Len(dists) THEN bestIdx
  ELSE IF bestDist = None \/ dists[j + 1] <= Get(bestDist)
       THEN NearestLoopLast(dists, j + 1, Some(dists[j + 1]), j)
       ELSE NearestLoopLast(dists, j + 1, bestDist, bestIdx)

\* The search for the closest entry: bestDist starts at Infinity (None) and
\* entry j wins when strictly closer.
RECURSIVE NearestLoop(_, _, _, _)
NearestLoop(dists, j, bestDist, bestIdx) ==
  IF j = Len(dists) THEN bestIdx
  ELSE IF bestDist = None \/ dists[j + 1] < Get(bestDist)
       THEN NearestLoop(dists, j + 1, Some(dists[j + 1]), j)
       ELSE NearestLoop(dists, j + 1, bestDist, bestIdx)

\* indices |= bestIdx << (i * 2), for texels i..15.
RECURSIVE PackColorIndices(_, _, _, _)
PackColorIndices(block, palette, i, indices) ==
  IF i = 16 THEN indices
  ELSE LET dists == [j \in 1..4 |-> ColorDistance(block[i + 1], palette[j])]
           bestIdx == NearestLoop(dists, 0, None, 0)
       IN PackColorIndices(block, palette, i + 1,
            BitOr(indices, ShiftLeft(Word(bestIdx, Int32Width), i * 2)))

\* encodeBC1Block: the locals and the 8 bytes written at the offset.
encodeBC1Block(block) ==
  LET e == Endpoints(InsetBox(block))
      palette == Palette(e.ep0, e.ep1)
      indices == PackColorIndices(block, palette, 0, Word(0, Int32Width))
      c0 == Word(e.c0, Int32Width)
      c1 == Word(e.c1, Int32Width)
      ff == Word(255, Int32Width)
  IN [c0 |-> e.c0, c1 |-> e.c1, palette |-> palette,
      bytes |-> << ToUint8(BitAnd(c0, ff)),
                   ToUint8(BitAnd(ShiftRight(c0, 8), ff)),
                   ToUint8(BitAnd(c1, ff)),
                   ToUint8(BitAnd(ShiftRight(c1, 8), ff)),
                   ToUint8(BitAnd(indices, ff)),
                   ToUint8(BitAnd(ShiftRight(indices, 8), ff)),
                   ToUint8(BitAnd(ShiftRight(indices, 16), ff)),
                   ToUint8(BitAnd(ShiftRight(indices, 24), ff)) >>]

\* The alpha palette: a Uint8Array(8), the maximum, the minimum and, when
\* they differ, six values between them; zero where nothing is stored.
AlphaPalette(maxA, minA) ==
  [j \in 1..8 |->
     IF j = 1 THEN maxA
     ELSE IF j = 2 THEN minA
     ELSE IF maxA > minA
          THEN RoundDiv((6 - (j - 3)) * maxA + (1 + (j - 3)) * minA, 7)
          ELSE 0]

\* bits |= BigInt(indices[i]) << BigInt(i * 3), for texels i..15.
RECURSIVE PackAlphaIndices(_, _, _, _)
PackAlphaIndices(block, alphaPalette, i, bits) ==
  IF i = 16 THEN bits
  ELSE LET dists == [j \in 1..8 |-> AlphaDistance(block[i + 1].a, alphaPalette[j])]
           bestIdx == NearestLoop(dists, 0, None, 0)
       IN PackAlphaIndices(block, alphaPalette, i + 1,
            BitOr(bits, ShiftLeft(Word(bestIdx, BigIntWidth), i * 3)))

\* encodeBC3AlphaBlock: the 8 bytes written at the offset.
encodeBC3AlphaBlock(block) ==
  LET alphas == {block[t].a : t \in 1..16}
      maxA == MaxOf(alphas)
      minA == MinOf(alphas)
      bits == PackAlphaIndices(block, AlphaPalette(maxA, minA), 0,
                               Word(0, BigIntWidth))
      ff == Word(255, BigIntWidth)
  IN << maxA, minA,
        ToUint8(BitAnd(bits, ff)),
        ToUint8(BitAnd(ShiftRight(bits, 8), ff)),
        ToUint8(BitAnd(ShiftRight(bits, 16), ff)),
        ToUint8(BitAnd(ShiftRight(bits, 24), ff)),
        ToUint8(BitAnd(ShiftRight(bits, 32), ff)),
        ToUint8(BitAnd(ShiftRight(bits, 40), ff)) >>

\* The blocks of a picture in the order the compressors visit them (rows of
\* blocks, left to right).
BlocksOf(data, width, height) ==
  LET blocksW == Max(1, CeilDiv(width, 4))
      blocksH == Max(1, CeilDiv(height, 4))
  IN [n \in 1..(blocksW * blocksH) |->
        extractBlock(data, width, height,
                     ((n - 1) % blocksW) * 4, ((n - 1) \div blocksW) * 4)]

RECURSIVE Flatten(_)
Flatten(tiles) == IF tiles = <<>> THEN <<>> ELSE Head(tiles) \o Flatten(Tail(tiles))

\* compressBC1: 8 bytes a block. The locals of each encodeBC1Block call are
\* kept beside the output.
compressBC1(data, width, height) ==
  LET blocks == BlocksOf(data, width, height)
      colors == [n \in 1..Len(blocks) |-> encodeBC1Block(blocks[n])]
  IN [output |-> Flatten([n \in 1..Len(blocks) |-> colors[n].bytes]),
      blocks |-> blocks, colors |-> colors]

\* A faulty compressBC3 that writes the color block first.
CompressBC3ColorFirst(data, width, height) ==
  LET blocks == BlocksOf(data, width, height)
      colors == [n \in 1..Len(blocks) |-> encodeBC1Block(blocks[n])]
  IN [output |-> Flatten([n \in 1..Len(blocks) |->
                            colors[n].bytes \o encodeBC3AlphaBlock(blocks[n])]),
      blocks |-> blocks, colors |-> colors]

\* compressBC3: 16 bytes a block, the alpha block at the offset and the
\* color block 8 bytes after it.
compressBC3(data, width, height) ==
  LET blocks == BlocksOf(data, width, height)
      colors == [n \in 1..Len(blocks) |-> encodeBC1Block(blocks[n])]
  IN [output |-> Flatten([n \in 1..Len(blocks) |->
                            encodeBC3AlphaBlock(blocks[n]) \o colors[n].bytes]),
      blocks |-> blocks, colors |-> colors]

\* ------------------------------------------------------------ mesh extractor
\* The attributes of original vertex v (0-based) of an enumerated geometry:
\* distinct for distinct vertices, so that a misplaced vertex shows.
SrcPosition(v) == <<100 + v, 200 + v, 300 + v>>
SrcNormal(v)   == <<400 + v, 500 + v, 600 + v>>
SrcUv(v)       == <<700 + v, 800 + v>>
SrcColor(v)    == <<10 + v, 20 + v, 30 + v, 40 + v>>

\* The loop over the group's indices (lines 146-152): `order` is vertexRemap's
\* keys in insertion order (the value of key order[j] is j - 1), `used` is
\* usedIndices.
IndexOfIn(order, v) == CHOOSE j \in 1..Len(order) : order[j] = v

\* A faulty remap that gives every index its own vertex.
RemapNoDedup(srcIndices, i, end, order, used) ==
  [order |-> [k \in 1..Max(end - i, 0) |-> srcIndices[i + k]],
   used  |-> [k \in 1..Max(end - i, 0) |-> k - 1]]

\* A faulty remap that numbers the vertices in original buffer order.
RemapSorted(srcIndices, i, end, order, used) ==
  LET seen == {srcIndices[k + 1] : k \in i..(end - 1)}
      below(v) == Cardinality({u \in seen : u < v})
  IN [order |-> [j \in 1..Cardinality(seen) |->
                   CHOOSE v \in seen : below(v) = j - 1],
      used  |-> [k \in 1..Max(end - i, 0) |-> below(srcIndices[i + k])]]

RECURSIVE RemapLoop(_, _, _, _, _)
RemapLoop(srcIndices, i, end, order, used) ==
  IF i >= end THEN [order |-> order, used |-> used]
  ELSE LET origIdx == srcIndices[i + 1]
           order2 == IF origIdx \in Range(order) THEN order
                     ELSE Append(order, origIdx)
       IN RemapLoop(srcIndices, i + 1, end, order2,
                    Append(used, IndexOfIn(order2, origIdx) - 1))

\* The ParsedMesh built from the remap (lines 157-201).
BuildSubMesh(g, order, used, materialIndex, materialName) ==
  LET vertexCount == Len(order)
      orig(k, stride) == order[((k - 1) \div stride) + 1]
      comp(k, stride) == ((k - 1) % stride) + 1
  IN [positions |-> [k \in 1..(vertexCount * 3) |->
                       SrcPosition(orig(k, 3))[comp(k, 3)]],
      normals |-> [k \in 1..(vertexCount * 3) |->
                     IF g.hasNormal THEN SrcNormal(orig(k, 3))[comp(k, 3)] ELSE 0],
      uvs |-> [k \in 1..(vertexCount * 2) |->
                 IF g.hasUv THEN SrcUv(orig(k, 2))[comp(k, 2)] ELSE 0],
      colors |-> IF g.colorItemSize = 0 THEN None
                 ELSE Some([k \in 1..(vertexCount * 4) |->
                         CASE comp(k, 4) <= 2 -> SrcColor(orig(k, 4))[comp(k, 4)]
                           [] comp(k, 4) = 3 ->
                                IF g.colorItemSize >= 3
                                THEN SrcColor(orig(k, 4))[3] ELSE 0
                           [] OTHER ->
                                IF g.colorItemSize >= 4
                                THEN SrcColor(orig(k, 4))[4] ELSE 1]),
      indices |-> used,
      materialIndex |-> materialIndex,
      materialName |-> materialName]

\* A faulty extractSubMesh that returns a mesh for a group of no vertex.
ExtractSubMeshAlways(g, startIndex, count, materialIndex, materialName) ==
  LET r == RemapLoop(g.index, startIndex, startIndex + count, <<>>, <<>>)
  IN Some(BuildSubMesh(g, r.order, r.used, materialIndex, materialName))

\* extractSubMesh(geo, startIndex, count, materialIndex, materialName): null
\* when the group references no vertex.
extractSubMesh(g, startIndex, count, materialIndex, materialName) ==
  LET r == RemapLoop(g.index, startIndex, startIndex + count, <<>>, <<>>)
  IN IF Len(r.order) = 0 THEN None
     ELSE Some(BuildSubMesh(g, r.order, r.used, materialIndex, materialName))

\* Number.prototype.toString for n >= 0, as characters.
DigitChar(d) == <<"0", "1", "2", "3", "4", "5", "6", "7", "8", "9">>[d + 1]
RECURSIVE DecimalDigits(_)
DecimalDigits(n) ==
  IF n < 10 THEN <<DigitChar(n)>> ELSE Append(DecimalDigits(n \div 10), DigitChar(n % 10))

\* A faulty template that names every unnamed material `default`.
SyntheticNameDefault(n) == <<"d", "e", "f", "a", "u", "l", "t">>

\* `Material_${materialNames.length}`
SyntheticName(n) == <<"M", "a", "t", "e", "r", "i", "a", "l", "_">> \o DecimalDigits(n)

\* A scene is its nodes in traversal order. A drawable node has positions
\* (posCount of them), an index (or null), groups (start, count,
\* materialIndex or undefined) and a material: one, or an array; a material
\* is null (undefined) or has a name, the empty name being falsy.
\* The geometry of a drawable node once indexed and given normals (lines
\* 71-82).
IndexedGeometry(node) ==
  [index |-> IF node.index = None THEN [i \in 1..node.posCount |-> i - 1]
             ELSE Get(node.index),
   hasNormal |-> TRUE, hasUv |-> node.hasUv, colorItemSize |-> node.colorItemSize]

\* geo.groups, or the one group spanning the index (line 86).
GroupsOf(node) ==
  IF Len(node.groups) > 0 THEN node.groups
  ELSE <<[start |-> 0, count |-> Len(IndexedGeometry(node).index),
          materialIndex |-> Some(0)]>>

\* materials[k] (undefined past the end).
MaterialAt(items, k) == IF k >= 0 /\ k < Len(items) THEN items[k + 1] ELSE None

\* A faulty materialMap.get that answers the number of names registered.
MaterialMapGetLength(names, matName) == Len(names)

\* materialMap.get(matName): the position the name was registered at.
materialMapGet(names, matName) ==
  (CHOOSE i \in 1..Len(names) : names[i] = matName) - 1

\* One turn of the loop over the groups (lines 88-103): the material's name
\* (or a synthetic one), its registration, the sub-mesh.
VisitGroup(acc, node, group) ==
  LET matIdx == IF group.materialIndex = None THEN 0 ELSE Get(group.materialIndex)
      mat == IF MaterialAt(node.material, matIdx) # None
             THEN MaterialAt(node.material, matIdx)
             ELSE MaterialAt(node.material, 0)
      matName == IF mat # None /\ Get(mat).name # <<>> THEN Get(mat).name
                 ELSE SyntheticName(Len(acc.materialNames))
      names == IF matName \in Range(acc.materialNames) THEN acc.materialNames
               ELSE Append(acc.materialNames, matName)
      globalMatIdx == materialMapGet(names, matName)
      subMesh == extractSubMesh(IndexedGeometry(node), group.start, group.count,
                                globalMatIdx, matName)
  IN [materialNames |-> names,
      meshes |-> IF subMesh # None THEN Append(acc.meshes, Get(subMesh))
                 ELSE acc.meshes]

RECURSIVE VisitGroups(_, _, _)
VisitGroups(acc, node, groups) ==
  IF groups = <<>> THEN acc
  ELSE VisitGroups(VisitGroup(acc, node, Head(groups)), node, Tail(groups))

\* root.traverse: the nodes that are no Mesh are skipped.
RECURSIVE VisitNodes(_, _)
VisitNodes(acc, nodes) ==
  IF nodes = <<>> THEN acc
  ELSE VisitNodes(IF Head(nodes).isMesh
                  THEN VisitGroups(acc, Head(nodes), GroupsOf(Head(nodes)))
                  ELSE acc,
                  Tail(nodes))

\* extractModelData(root, filename): the Model, or the error thrown.
extractModelData(nodes, filename) ==
  LET acc == VisitNodes([materialNames |-> <<>>, meshes |-> <<>>], nodes)
      materialNames == IF Len(acc.materialNames) = 0
                       THEN << <<"d", "e", "f", "a", "u", "l", "t">> >>
                       ELSE acc.materialNames
  IN IF Len(acc.meshes) = 0
     THEN [ok |-> FALSE, error |-> "No mesh geometry found in the imported model."]
     ELSE [ok |-> TRUE,
           model |-> [name |-> StripExtension(filename), meshes |-> acc.meshes,
                      materialNames |-> materialNames]]

\* ---------------------------------------------------------- number formatter
\* A finite number in decimal: a sign, the digits of the integer part (no
\* leading zero, <<0>> for none) and the digits after the point. Every double
\* has such an expansion; the decimals enumerated stand for the doubles
\* nearest to them.
Num(neg, int, frac) == [neg |-> neg, int |-> int, frac |-> frac]
AllZero(digits) == \A i \in 1..Len(digits) : digits[i] = 0
DigitsText(digits) == [i \in 1..Len(digits) |-> DigitChar(digits[i])]

\* Number.isInteger(n)
NumberIsInteger(n) == AllZero(n.frac)

\* x < 0 (which -0 is not).
IsNegative(n) == n.neg /\ ~(AllZero(n.int) /\ AllZero(n.frac))

\* The digit sequence plus one.
RECURSIVE Increment(_)
Increment(digits) ==
  IF digits = <<>> THEN <<1>>
  ELSE IF digits[Len(digits)] < 9
       THEN [digits EXCEPT ![Len(digits)] = @ + 1]
       ELSE Append(Increment(SubSeq(digits, 1, Len(digits) - 1)), 0)

\* ToString(x) for x >= 10^21: d.ddde+N with the trailing zeros of the
\* mantissa dropped.
ExponentNotation(int) ==
  LET last == CHOOSE k \in 1..Len(int) :
                 /\ (k = 1 \/ int[k] # 0)
                 /\ \A j \in (k + 1)..Len(int) : int[j] = 0
  IN <<DigitChar(int[1])>>
     \o (IF last > 1 THEN <<".">> \o DigitsText(SubSeq(int, 2, last)) ELSE <<>>)
     \o <<"e", "+">> \o DecimalDigits(Len(int) - 1)

\* A faulty toFixed that truncates instead of rounding.
ToFixedTruncating(n, d) ==
  (IF IsNegative(n) THEN <<"-">> ELSE <<>>)
  \o DigitsText(n.int) \o <<".">>
  \o DigitsText([i \in 1..d |-> IF i <= Len(n.frac) THEN n.frac[i] ELSE 0])

\* Number.prototype.toFixed(d), d >= 1: the integer nearest to x * 10^d (the
\* larger one of two), written with d digits after the point; ToString(x)
\* when x >= 10^21.
toFixed(n, d) ==
  LET sign == IF IsNegative(n) THEN <<"-">> ELSE <<>>
      scaled == n.int \o [i \in 1..d |-> IF i <= Len(n.frac) THEN n.frac[i] ELSE 0]
      nearest == IF Len(n.frac) > d /\ n.frac[d + 1] >= 5
                 THEN Increment(scaled) ELSE scaled
      intLen == Len(nearest) - d
  IN IF Len(n.int) >= 22 THEN sign \o ExponentNotation(n.int)
     ELSE sign \o DigitsText(SubSeq(nearest, 1, intLen)) \o <<".">>
          \o DigitsText(SubSeq(nearest, intLen + 1, Len(nearest)))

\* s.replace(/(\.\d*?)0+$/, "$1"): the zeros that end s go, when only digits
\* stand between them and a point.
FirstDot(s) ==
  IF \E i \in 1..Len(s) : s[i] = "."
  THEN CHOOSE i \in 1..Len(s) : s[i] = "." /\ \A j \in 1..(i - 1) : s[j] # "."
  ELSE 0

DropTrailingZeros(s) ==
  LET dot == FirstDot(s)
      keep == CHOOSE k \in dot..Len(s) :
                 /\ s[k] # "0"
                 /\ \A j \in (k + 1)..Len(s) : s[j] = "0"
  IN IF /\ dot > 0
        /\ s[Len(s)] = "0"
        /\ \A j \in (dot + 1)..Len(s) : s[j] \in DigitChars
     THEN SubSeq(s, 1, keep)
     ELSE s

\* s.replace(/\.$/, ".0")
RestoreZero(s) == IF s # <<>> /\ s[Len(s)] = "." THEN Append(s, "0") ELSE s

\* f(n)
f(n) ==
  IF NumberIsInteger(n) THEN toFixed(n, 1)
  ELSE RestoreZero(DropTrailingZeros(toFixed(n, 7)))

\* ------------------------------------------------------------ shader catalog
DIFFUSE_ONLY == <<"DiffuseSampler">>
DIFFUSE_BUMP == DIFFUSE_ONLY \o <<"BumpSampler">>
DIFFUSE_SPEC == DIFFUSE_ONLY \o <<"SpecSampler">>
DIFFUSE_BUMP_SPEC == DIFFUSE_ONLY \o <<"BumpSampler", "SpecSampler">>
DIFFUSE_BUMP_SPEC_DETAIL == DIFFUSE_BUMP_SPEC \o <<"DetailSampler">>

\* The numbers of the catalog.
N_0 == Num(FALSE, <<0>>, <<>>)
N_1 == Num(FALSE, <<1>>, <<>>)
N_100 == Num(FALSE, <<1, 0, 0>>, <<>>)
N_0_125 == Num(FALSE, <<0>>, <<1, 2, 5>>)
N_0_97 == Num(FALSE, <<0>>, <<9, 7>>)

VectorParam(name, x, y, z, w) == [name |-> name, x |-> x, y |-> y, z |-> z, w |-> w]

COMMON_VECTOR_PARAMS ==
  << VectorParam("matMaterialColorScale", N_1, N_0, N_0, N_1),
     VectorParam("HardAlphaBlend", N_1, N_0, N_0, N_0),
     VectorParam("useTessellation", N_0, N_0, N_0, N_0),
     VectorParam("wetnessMultiplier", N_1, N_0, N_0, N_0),
     VectorParam("globalAnimUV1", N_0, N_1, N_0, N_0),
     VectorParam("globalAnimUV0", N_1, N_0, N_0, N_0) >>
SPEC_PARAMS ==
  << VectorParam("specularIntensityMult", N_0_125, N_0, N_0, N_0),
     VectorParam("specularFalloffMult", N_100, N_0, N_0, N_0),
     VectorParam("specularFresnel", N_0_97, N_0, N_0, N_0) >>
BUMPINESS == << VectorParam("bumpiness", N_1, N_0, N_0, N_0) >>
NORMAL_SPEC_PARAMS == SPEC_PARAMS \o BUMPINESS
EMISSIVE_PARAMS == << VectorParam("emissiveMultiplier", N_1, N_0, N_0, N_0) >>
DETAIL_PARAMS == << VectorParam("detailSettings", N_0, N_0, N_0, N_1) >>

ShaderDef(filename, renderBucket, textureParams, needsTangent) ==
  [filename |-> filename, renderBucket |-> renderBucket,
   textureParams |-> textureParams, needsTangent |-> needsTangent]

\* ALL_SHADERS, in catalog order (display names and categories are not
\* modelled here; the vectorParams of the entries are tabulated apart, in
\* VECTOR_PARAMS).
ALL_SHADERS ==
  << ShaderDef("default.sps", 0, DIFFUSE_ONLY, FALSE),
     ShaderDef("normal.sps", 0, DIFFUSE_BUMP, TRUE),
     ShaderDef("spec.sps", 0, DIFFUSE_SPEC, FALSE),
     ShaderDef("normal_spec.sps", 0, DIFFUSE_BUMP_SPEC, TRUE),
     ShaderDef("normal_spec_detail.sps", 0, DIFFUSE_BUMP_SPEC_DETAIL, TRUE),
     ShaderDef("normal_detail.sps", 0, DIFFUSE_BUMP \o <<"DetailSampler">>, TRUE),
     ShaderDef("spec_detail.sps", 0, DIFFUSE_SPEC \o <<"DetailSampler">>, FALSE),
     ShaderDef("alpha.sps", 1, DIFFUSE_ONLY, FALSE),
     ShaderDef("normal_spec_alpha.sps", 1, DIFFUSE_BUMP_SPEC, TRUE),
     ShaderDef("normal_alpha.sps", 1, DIFFUSE_BUMP, TRUE),
     ShaderDef("spec_alpha.sps", 1, DIFFUSE_SPEC, FALSE),
     ShaderDef("cutout_fence.sps", 3, DIFFUSE_ONLY, FALSE),
     ShaderDef("normal_cutout_fence.sps", 3, DIFFUSE_BUMP, TRUE),
     ShaderDef("normal_spec_cutout_fence.sps", 3, DIFFUSE_BUMP_SPEC, TRUE),
     ShaderDef("decal.sps", 2, DIFFUSE_ONLY, FALSE),
     ShaderDef("normal_decal.sps", 2, DIFFUSE_BUMP, TRUE),
     ShaderDef("normal_spec_decal.sps", 2, DIFFUSE_BUMP_SPEC, TRUE),
     ShaderDef("emissive.sps", 0, DIFFUSE_ONLY, FALSE),
     ShaderDef("emissivenight.sps", 0, DIFFUSE_ONLY, FALSE),
     ShaderDef("emissive_alpha.sps", 1, DIFFUSE_ONLY, FALSE),
     ShaderDef("normal_spec_emissive.sps", 0, DIFFUSE_BUMP_SPEC, TRUE),
     ShaderDef("glass.sps", 1, DIFFUSE_ONLY, FALSE),
     ShaderDef("glass_normal_spec_reflect.sps", 1, DIFFUSE_BUMP_SPEC, TRUE),
     ShaderDef("reflect.sps", 0, DIFFUSE_ONLY, FALSE),
     ShaderDef("normal_spec_reflect.sps", 0, DIFFUSE_BUMP_SPEC, TRUE) >>

\* The vectorParams of the entries of ALL_SHADERS, in catalog order.
VECTOR_PARAMS ==
  << COMMON_VECTOR_PARAMS,
     COMMON_VECTOR_PARAMS \o BUMPINESS,
     COMMON_VECTOR_PARAMS \o SPEC_PARAMS,
     COMMON_VECTOR_PARAMS \o NORMAL_SPEC_PARAMS,
     COMMON_VECTOR_PARAMS \o NORMAL_SPEC_PARAMS \o DETAIL_PARAMS,
     COMMON_VECTOR_PARAMS \o BUMPINESS \o DETAIL_PARAMS,
     COMMON_VECTOR_PARAMS \o SPEC_PARAMS \o DETAIL_PARAMS,
     COMMON_VECTOR_PARAMS,
     COMMON_VECTOR_PARAMS \o NORMAL_SPEC_PARAMS,
     COMMON_VECTOR_PARAMS \o BUMPINESS,
     COMMON_VECTOR_PARAMS \o SPEC_PARAMS,
     COMMON_VECTOR_PARAMS,
     COMMON_VECTOR_PARAMS \o BUMPINESS,
     COMMON_VECTOR_PARAMS \o NORMAL_SPEC_PARAMS,
     COMMON_VECTOR_PARAMS,
     COMMON_VECTOR_PARAMS \o BUMPINESS,
     COMMON_VECTOR_PARAMS \o NORMAL_SPEC_PARAMS,
     COMMON_VECTOR_PARAMS \o EMISSIVE_PARAMS,
     COMMON_VECTOR_PARAMS \o EMISSIVE_PARAMS,
     COMMON_VECTOR_PARAMS \o EMISSIVE_PARAMS,
     COMMON_VECTOR_PARAMS \o NORMAL_SPEC_PARAMS \o EMISSIVE_PARAMS,
     COMMON_VECTOR_PARAMS,
     COMMON_VECTOR_PARAMS \o NORMAL_SPEC_PARAMS,
     COMMON_VECTOR_PARAMS,
     COMMON_VECTOR_PARAMS \o NORMAL_SPEC_PARAMS >>

DEFAULT_SHADER == ALL_SHADERS[1]

\* SHADER_MAP.has(filename) and SHADER_MAP.get(filename).
ShaderMapHas(filename) == \E i \in 1..Len(ALL_SHADERS) : ALL_SHADERS[i].filename = filename
ShaderMapGet(filename) ==
  ALL_SHADERS[CHOOSE i \in 1..Len(ALL_SHADERS) : ALL_SHADERS[i].filename = filename]

\* SHADER_MAP.get(name) || DEFAULT_SHADER
ShaderOrDefault(filename) ==
  IF ShaderMapHas(filename) THEN ShaderMapGet(filename) ELSE DEFAULT_SHADER

\* ------------------------------------------------------------------- store
\* A Record<string, TextureSlotData> is a sequence of [key, slot] in the
\* insertion order of its keys (the order Object.keys and Object.entries
\* give); a slot holds the file (or null) and the sizes shown.
HasKey(textures, key) == \E i \in 1..Len(textures) : textures[i].key = key
SlotOf(textures, key) ==
  textures[CHOOSE i \in 1..Len(textures) : textures[i].key = key].slot

\* { ...textures, [samplerName]: data }: an existing key keeps its place.
SetKey(textures, key, data) ==
  IF HasKey(textures, key)
  THEN [i \in 1..Len(textures) |->
          IF textures[i].key = key THEN [key |-> key, slot |-> data]
          ELSE textures[i]]
  ELSE Append(textures, [key |-> key, slot |-> data])

\* createDefaultMaterialConfig(name)
createDefaultMaterialConfig(name) ==
  [name |-> name, shaderName |-> DEFAULT_SHADER.filename, textures |-> <<>>]

\* model.name.replace(/\.[^/.]+$/, "").replace(/[^a-zA-Z0-9_]/g, "_") || "prop"
ExportNameOf(modelName) ==
  LET stem == StripExtension(modelName)
      clean == [i \in 1..Len(stem) |-> IF NotWordChar(stem[i]) THEN "_" ELSE stem[i]]
  IN IF clean = <<>> THEN <<"p", "r", "o", "p">> ELSE clean

\* A faulty loop that keeps every slot of the old textures.
KeepAll(oldTextures, params, i) == oldTextures

\* The loop of updateMaterialShader over the new shader's parameters: the
\* slots (null-file ones too: the slot object is truthy) whose key the shader
\* declares, in the shader's order.
RECURSIVE KeepDeclared(_, _, _)
KeepDeclared(oldTextures, params, i) ==
  IF i > Len(params) THEN <<>>
  ELSE (IF HasKey(oldTextures, params[i])
        THEN <<[key |-> params[i], slot |-> SlotOf(oldTextures, params[i])]>>
        ELSE <<>>)
       \o KeepDeclared(oldTextures, params, i + 1)

\* updateMaterialShader(index, shaderFilename) on the materials (index is
\* 0-based); an index with no material or an unknown shader changes nothing.
updateMaterialShader(mats, index, shaderFilename) ==
  IF ~(index >= 0 /\ index < Len(mats)) THEN mats
  ELSE IF ~ShaderMapHas(shaderFilename) THEN mats
  ELSE [mats EXCEPT ![index + 1] =
          [name |-> @.name,
           shaderName |-> shaderFilename,
           textures |-> KeepDeclared(@.textures,
                                     ShaderMapGet(shaderFilename).textureParams, 1)]]

\* A faulty updateMaterialTexture without the check of materials[index]: an
\* index just past the end adds a material that has only textures.
UpdateMaterialTextureUnchecked(mats, index, samplerName, data) ==
  IF index = Len(mats)
  THEN Append(mats, [name |-> <<>>, shaderName |-> "",
                     textures |-> <<[key |-> samplerName, slot |-> data]>>])
  ELSE [mats EXCEPT ![index + 1].textures = SetKey(@, samplerName, data)]

\* updateMaterialTexture(index, samplerName, data) on the materials.
updateMaterialTexture(mats, index, samplerName, data) ==
  IF ~(index >= 0 /\ index < Len(mats)) THEN mats
  ELSE [mats EXCEPT ![index + 1].textures = SetKey(@, samplerName, data)]

\* getImageDimensions(file) as handleFile uses it: the sizes read, or the
\* defaults 512 x 512 when it rejects.
EndsWithDds(name) ==
  /\ Len(name) >= 4
  /\ [i \in 1..4 |-> ToLowerChar(name[Len(name) - 4 + i])] = <<".", "d", "d", "s">>

DimensionsShown(file) ==
  IF EndsWithDds(file.name)
  THEN IF CanRead(file.data, 0) /\ file.data.magic = DDS_MAGIC
            /\ CanRead(file.data, 12) /\ CanRead(file.data, 16)
       THEN [width |-> file.data.width, height |-> file.data.height]
       ELSE [width |-> 512, height |-> 512]
  ELSE IF file.data.decodable
       THEN [width |-> file.data.w, height |-> file.data.h]
       ELSE [width |-> 512, height |-> 512]

\* The TextureSlotData handleFile stores (the preview URL is not modelled),
\* and the one clearTexture stores.
SlotFor(file) ==
  [file |-> Some(file), width |-> DimensionsShown(file).width,
   height |-> DimensionsShown(file).height]
ClearedSlot == [file |-> None, width |-> 0, height |-> 0]

\* ------------------------------------------------------ document serializer
\* String.prototype.replace with a one-character global pattern.
RECURSIVE ReplaceAll(_, _, _)
ReplaceAll(s, c, entity) ==
  IF s = <<>> THEN <<>>
  ELSE (IF Head(s) = c THEN entity ELSE <<Head(s)>>) \o ReplaceAll(Tail(s), c, entity)

Entity_amp == <<"&", "a", "m", "p", ";">>
Entity_lt == <<"&", "l", "t", ";">>
Entity_gt == <<"&", "g", "t", ";">>
Entity_quot == <<"&", "q", "u", "o", "t", ";">>

\* A faulty escXml that replaces the ampersands last.
EscXmlAmpersandLast(s) ==
  ReplaceAll(ReplaceAll(ReplaceAll(ReplaceAll(s, "<", Entity_lt), ">", Entity_gt),
                        "\"", Entity_quot), "&", Entity_amp)

\* escXml(s): the four replaces, in the order of the chain. The catalog's
\* names (shader files, parameters) are atomic strings of letters, digits,
\* `_` and `.`, which escXml leaves as they are.
escXml(s) ==
  ReplaceAll(ReplaceAll(ReplaceAll(ReplaceAll(s, "&", Entity_amp), "<", Entity_lt),
                        ">", Entity_gt), "\"", Entity_quot)

\* mat.name.replace(/[^a-zA-Z0-9_]/g, "_").toLowerCase()
ShaderDisplayName(name) ==
  [i \in 1..Len(name) |-> ToLowerChar(IF NotWordChar(name[i]) THEN "_" ELSE name[i])]

\* Array.prototype.find over the Texture Entries: the first position that
\* satisfies the test, or 0.
FirstOf(S) == IF S = {} THEN 0 ELSE CHOOSE i \in S : \A j \in S : i <= j

\* The first lookup of a texture parameter (line 108-109): an entry of that
\* sampler whose distance from the first entry of that sampler equals the
\* material's index. m is the material's 1-based position.
FirstLookup(textures, tpName, m) ==
  LET first == FirstOf({i \in 1..Len(textures) : textures[i].samplerName = tpName})
  IN FirstOf({i \in 1..Len(textures) :
                /\ textures[i].samplerName = tpName
                /\ m - 1 = i - first})

\* The second lookup (lines 110-117): the entry named like the file the
\* material has in that slot, and of that sampler.
SecondLookup(textures, tpName, mat) ==
  FirstOf({i \in 1..Len(textures) :
             /\ HasKey(mat.textures, tpName)
             /\ SlotOf(mat.textures, tpName).file # None
             /\ textures[i].name
                  = sanitizeTextureName(Get(SlotOf(mat.textures, tpName).file).name)
             /\ textures[i].samplerName = tpName})

\* textures.find(first) || textures.find(second): the position of the entry a
\* texture parameter names, or 0 for the placeholder.
LookupTexture(textures, tpName, mats, m) ==
  IF FirstLookup(textures, tpName, m) # 0
  THEN FirstLookup(textures, tpName, m)
  ELSE SecondLookup(textures, tpName, mats[m])

\* getDdsFormatString
getDdsFormatString(format) == IF format = "DXT1" THEN "D3DFMT_DXT1" ELSE "D3DFMT_DXT5"

\* The <TextureDictionary> items: one per Texture Entry handed in.
TextureDictionary(textures) ==
  [i \in 1..Len(textures) |->
     [name |-> escXml(textures[i].name), width |-> textures[i].width,
      height |-> textures[i].height, mipLevels |-> 1,
      format |-> getDdsFormatString(textures[i].format),
      fileName |-> escXml(textures[i].fileName)]]

\* The vector parameter items the loop of lines 131-133 writes for a shader:
\* they depend on the shader alone, so they are tabulated by its position in
\* the catalog.
CatalogPosition(filename) ==
  CHOOSE i \in 1..Len(ALL_SHADERS) : ALL_SHADERS[i].filename = filename

VectorItems ==
  [i \in 1..Len(VECTOR_PARAMS) |->
     [k \in 1..Len(VECTOR_PARAMS[i]) |->
        [name |-> VECTOR_PARAMS[i][k].name,
         x |-> f(VECTOR_PARAMS[i][k].x),
         y |-> f(VECTOR_PARAMS[i][k].y),
         z |-> f(VECTOR_PARAMS[i][k].z),
         w |-> f(VECTOR_PARAMS[i][k].w)]]]

\* A faulty shader list whose texture parameters follow the material's slots.
ShaderItemsInSlotOrder(mats, textures) ==
  [m \in 1..Len(mats) |->
     LET shaderDef == ShaderOrDefault(mats[m].shaderName)
     IN [name |-> ShaderDisplayName(mats[m].name),
         fileName |-> shaderDef.filename,
         renderBucket |-> shaderDef.renderBucket,
         textureParams |->
           [k \in 1..Len(mats[m].textures) |->
              [name |-> mats[m].textures[k].key, tex |-> None]],
         vectorParams |-> VectorItems[CatalogPosition(shaderDef.filename)]]]

\* The <Shaders> items: one per material, with one texture parameter per
\* declared sampler (tex is the name written, or null for <Name />) followed
\* by one vector parameter per declared vector, its values formatted.
ShaderItems(mats, textures) ==
  [m \in 1..Len(mats) |->
     LET shaderDef == ShaderOrDefault(mats[m].shaderName)
     IN [name |-> escXml(ShaderDisplayName(mats[m].name)),
         fileName |-> shaderDef.filename,
         renderBucket |-> shaderDef.renderBucket,
         textureParams |->
           [k \in 1..Len(shaderDef.textureParams) |->
              LET at == LookupTexture(textures, shaderDef.textureParams[k], mats, m)
              IN [name |-> shaderDef.textureParams[k],
                  tex |-> IF at = 0 THEN None
                          ELSE Some(escXml(textures[at].name))]],
         vectorParams |-> VectorItems[CatalogPosition(shaderDef.filename)]]]

\* The <Geometries> items: one per mesh, with its ShaderIndex and whether the
\* layout has a tangent.
GeometryItems(model, mats) ==
  [g \in 1..Len(model.meshes) |->
     LET shaderIndex == model.meshes[g].materialIndex
         shaderDef == IF shaderIndex >= 0 /\ shaderIndex < Len(mats)
                      THEN ShaderOrDefault(mats[shaderIndex + 1].shaderName)
                      ELSE DEFAULT_SHADER
     IN [shaderIndex |-> shaderIndex, tangent |-> shaderDef.needsTangent]]

\* generateYdrXml(opts): the document, as the tree it renders (the vertex and
\* index data and the bounds are not modelled here).
generateYdrXml(name, model, mats, textures) ==
  [name |-> escXml(name),
   textureDictionary |-> TextureDictionary(textures),
   shaders |-> ShaderItems(mats, textures),
   geometries |-> GeometryItems(model, mats)]

\* ------------------------------------------------------- export orchestrator
Chars_prop == <<"p", "r", "o", "p">>
Chars_ydr_xml == <<".", "y", "d", "r", ".", "x", "m", "l">>
Chars_zip == <<".", "z", "i", "p">>

\* One onProgress(step, percent) call. The per-texture step text (counts and
\* file name) is abbreviated to its fixed head.
Event(step, percent) == [step |-> step, percent |-> percent]

\* The slots with a file, material by material (0-based matIdx), each
\* material's Object.entries in order: what both loops of exportYdr visit.
RECURSIVE SlotsWithFile(_, _)
SlotsWithFile(textures, matIdx) ==
  IF textures = <<>> THEN <<>>
  ELSE (IF Head(textures).slot.file # None
        THEN <<[matIdx |-> matIdx, samplerName |-> Head(textures).key,
                file |-> Get(Head(textures).slot.file)]>>
        ELSE <<>>)
       \o SlotsWithFile(Tail(textures), matIdx)

RECURSIVE FlatSlots(_, _)
FlatSlots(mats, m) ==
  IF m > Len(mats) THEN <<>>
  ELSE SlotsWithFile(mats[m].textures, m - 1) \o FlatSlots(mats, m + 1)

\* A faulty read of the materials: the store's current ones (as long as they
\* still hold the slot being awaited).
LiveMaterials(e) ==
  IF Len(FlatSlots(materials, 1)) >= Len(FlatSlots(e.materials, 1))
  THEN materials ELSE e.materials

\* The `materials` an exportYdr call reads: the array passed in its options.
ExportMaterials(e) == e.materials

\* processedTextures.has(texName) and .get(texName).
Processed(e, texName) == \E i \in 1..Len(e.processed) : e.processed[i].name = texName
ProcessedGet(e, texName) ==
  e.processed[CHOOSE i \in 1..Len(e.processed) : e.processed[i].name = texName]

\* zip.file(path, data): a path added twice keeps its place and the last data.
ZipFile(files, path, data) ==
  IF \E i \in 1..Len(files) : files[i].path = path
  THEN [i \in 1..Len(files) |->
          IF files[i].path = path THEN [path |-> path, data |-> data] ELSE files[i]]
  ELSE Append(files, [path |-> path, data |-> data])

RECURSIVE ZipDds(_, _, _)
ZipDds(files, name, ddsFiles) ==
  IF ddsFiles = <<>> THEN files
  ELSE ZipDds(ZipFile(files, name \o <<"/">> \o Head(ddsFiles).fileName,
                      Head(ddsFiles).data),
              name, Tail(ddsFiles))

\* exportYdr's locals when it is called (lines 21-36), the first progress
\* event emitted.
NewExport(name, model, mats) ==
  [pc |-> "start", name |-> name, model |-> model, materials |-> mats,
   pos |-> 0, textureEntries |-> <<>>, ddsFiles |-> <<>>, processed |-> <<>>,
   texCount |-> 0, totalTextures |-> Len(FlatSlots(mats, 1)),
   events |-> <<Event("Converting textures to DDS...", 5)>>,
   xml |-> None, zip |-> None, saved |-> None,
   calls |-> <<>>, failed |-> <<>>]

\* A faulty tail that fills the archive although the serializer threw.
AfterLoopPackaging(e, xmlOk) ==
  [e EXCEPT !.events = Append(@, Event("Generating YDR XML...", 70)),
            !.zip = Some(ZipDds(<<>>, e.name, e.ddsFiles)),
            !.pc = IF xmlOk THEN "zipping" ELSE "threw"]

\* A faulty tail that announces the archive before the serializer.
AfterLoopArchiveFirst(e, xmlOk) ==
  LET e1 == [e EXCEPT !.events = Append(@, Event("Creating ZIP archive...", 85))]
  IN IF ~xmlOk THEN [e1 EXCEPT !.pc = "threw"]
     ELSE LET xmlContent == generateYdrXml(e.name, e.model, ExportMaterials(e),
                                           e.textureEntries)
          IN [e1 EXCEPT
                !.xml = Some(xmlContent),
                !.zip = Some(ZipDds(<<[path |-> e.name \o Chars_ydr_xml,
                                       data |-> xmlContent]>>,
                                    e.name, e.ddsFiles)),
                !.events = @ \o <<Event("Generating YDR XML...", 70),
                                  Event("Downloading...", 95)>>,
                !.pc = "zipping"]

\* Lines 79-102, up to `await zip.generateAsync`: the document, the archive's
\* entries. xmlOk is whether generateYdrXml returns (it throws, for one, when
\* the document outgrows the engine's longest string).
AfterLoop(e, xmlOk) ==
  LET e1 == [e EXCEPT !.events = Append(@, Event("Generating YDR XML...", 70))]
  IN IF ~xmlOk THEN [e1 EXCEPT !.pc = "threw"]
     ELSE LET xmlContent == generateYdrXml(e.name, e.model, ExportMaterials(e),
                                           e.textureEntries)
          IN [e1 EXCEPT
                !.xml = Some(xmlContent),
                !.zip = Some(ZipDds(<<[path |-> e.name \o Chars_ydr_xml,
                                       data |-> xmlContent]>>,
                                    e.name, e.ddsFiles)),
                !.events = @ \o <<Event("Creating ZIP archive...", 85),
                                  Event("Downloading...", 95)>>,
                !.pc = "zipping"]

\* The texture loop (lines 38-77) from flat slot k on, up to the next await:
\* a texture already processed adds a copy of its entry under this sampler;
\* another is counted, announced and handed to encodeToDds. Math.round of
\* texCount / max(total, 1) * 60 is computed on integers.
RECURSIVE RunLoop(_, _, _)
RunLoop(e, k, xmlOk) ==
  LET slots == FlatSlots(ExportMaterials(e), 1)
  IN IF k > Len(slots) THEN AfterLoop(e, xmlOk)
     ELSE LET texName == sanitizeTextureName(slots[k].file.name)
          IN IF Processed(e, texName)
             THEN RunLoop([e EXCEPT !.textureEntries =
                             Append(@, [ProcessedGet(e, texName) EXCEPT
                                          !.samplerName = slots[k].samplerName])],
                          k + 1, xmlOk)
             ELSE [e EXCEPT
                     !.texCount = @ + 1,
                     !.events = Append(@, Event("Converting texture",
                                  5 + RoundDiv((e.texCount + 1) * 60,
                                               Max(e.totalTextures, 1)))),
                     !.calls = Append(@, slots[k].file),
                     !.pos = k,
                     !.pc = "encoding"]

\* A faulty handler that records a texture whose conversion failed.
AfterEncodeRecording(e) ==
  LET slot == FlatSlots(e.materials, 1)[e.pos]
      texName == sanitizeTextureName(slot.file.name)
      result == encodeToDds(slot.file, Null)
      entry == [name |-> texName, samplerName |-> slot.samplerName,
                width |-> IF result.ok THEN result.width ELSE 0,
                height |-> IF result.ok THEN result.height ELSE 0,
                format |-> IF result.ok THEN result.format ELSE "DXT1",
                fileName |-> DdsFileName(texName)]
  IN [e EXCEPT !.textureEntries = Append(@, entry),
               !.ddsFiles = Append(@, [fileName |-> DdsFileName(texName),
                                       data |-> IF result.ok THEN result.dds
                                                ELSE slot.file.data]),
               !.processed = Append(@, entry),
               !.failed = IF result.ok THEN @ ELSE Append(@, slot.file)]

\* A faulty handler that records the entry of a converted texture but not
\* its file.
AfterEncodeEntryOnly(e) ==
  LET slot == FlatSlots(ExportMaterials(e), 1)[e.pos]
      texName == sanitizeTextureName(slot.file.name)
      result == encodeToDds(slot.file, Null)
      entry == [name |-> texName, samplerName |-> slot.samplerName,
                width |-> result.width, height |-> result.height,
                format |-> result.format, fileName |-> DdsFileName(texName)]
  IN IF result.ok
     THEN [e EXCEPT !.textureEntries = Append(@, entry),
                    !.processed = Append(@, entry)]
     ELSE [e EXCEPT !.failed = Append(@, slot.file)]

\* Lines 58-75 once encodeToDds settles for the slot awaited: the entry and
\* the file are recorded, or the failure is logged and the texture skipped.
AfterEncode(e) ==
  LET slot == FlatSlots(ExportMaterials(e), 1)[e.pos]
      texName == sanitizeTextureName(slot.file.name)
      result == encodeToDds(slot.file, Null)
      entry == [name |-> texName, samplerName |-> slot.samplerName,
                width |-> result.width, height |-> result.height,
                format |-> result.format, fileName |-> DdsFileName(texName)]
  IN IF result.ok
     THEN [e EXCEPT !.textureEntries = Append(@, entry),
                    !.ddsFiles = Append(@, [fileName |-> DdsFileName(texName),
                                            data |-> result.dds]),
                    !.processed = Append(@, entry)]
     ELSE [e EXCEPT !.failed = Append(@, slot.file)]

\* Lines 108-109 once the archive is generated.
AfterZip(e) ==
  [e EXCEPT !.saved = Some([blob |-> Get(e.zip), fileName |-> e.name \o Chars_zip]),
            !.events = Append(@, Event("Export complete!", 100)),
            !.pc = "done"]

\* ------------------------------------------------- inputs of the main model
\* The files the user picks: a picture, an undecodable picture whose name
\* sanitizes to the same texture name, and a container.
FileA   == Picture(<<"A", ".", "p", "n", "g">>, 5, 3, <<255>>, TRUE)
FileBad == Picture(<<"a", ".", "j", "p", "g">>, 0, 0, <<>>, FALSE)
FileB   == Container(<<"b", "-", "2", ".", "d", "d", "s">>, 136, 8, 4, FOURCC_DXT5)
UserFiles == {FileA, FileBad, FileB}

\* The shaders the user chooses among.
ShaderChoices == {"default.sps", "normal.sps"}

\* The model extraction returns: two meshes on two materials (the second one
\* unnamed in the source).
Name_Wood == <<"W", "o", "o", "d">>
Name_Material_1 == <<"M", "a", "t", "e", "r", "i", "a", "l", "_", "1">>
ModelBox ==
  [name |-> <<"B", "o", "x", ".", "v", "2">>,
   meshes |-> <<[materialIndex |-> 0, materialName |-> Name_Wood],
                [materialIndex |-> 1, materialName |-> Name_Material_1]>>,
   materialNames |-> <<Name_Wood, Name_Material_1>>]
ImportableModels == {ModelBox}

\* ------------------------------------------------------------ the main model
ExtractIdle == scene = None /\ xpc = "off" /\ xout = None /\ updates = 0
TextIdle  ==
  fin = None /\ fpc = "off" /\ fout = None /\ tin = None /\ tpc = "off" /\ tout = None
MeshIdle  == geo = None /\ mpc = "off" /\ sub = None /\ ExtractIdle /\ TextIdle
BlockIdle == img = None /\ ipc = "off" /\ iout = None
BuildIdle == bin = None /\ bpc = "off" /\ bout = None /\ bback = None /\ BlockIdle
CodecIdle == cin = None /\ cpc = "off" /\ cdec = None /\ cres = None /\ BuildIdle

Init ==
  /\ parsedModel = None
  /\ materials = <<>>
  /\ exportProgress = None
  /\ exportName = Chars_prop
  /\ error = None
  /\ picks = {}
  /\ parsing = FALSE
  /\ timers = 0
  /\ ex = <<>>
  /\ edits = 0
  /\ nexports = 0
  /\ MeshIdle
  /\ CodecIdle

\* reset()
StoreReset ==
  /\ parsedModel' = None
  /\ materials' = <<>>
  /\ exportProgress' = None
  /\ exportName' = Chars_prop

\* Toolbar / ImportPanel handleFile up to `await parseModelFile`: reset().
StartImport ==
  /\ edits < MaxEdits
  /\ ~parsing
  /\ StoreReset
  /\ parsing' = TRUE
  /\ edits' = edits + 1
  /\ UNCHANGED <<error, picks, timers, ex, nexports, meshVars, codecVars>>

\* parseModelFile resolves: importModel(model).
ParseResolves(model) ==
  /\ parsing
  /\ parsing' = FALSE
  /\ parsedModel' = Some(model)
  /\ exportName' = ExportNameOf(model.name)
  /\ materials' = [i \in 1..Len(model.materialNames) |->
                     createDefaultMaterialConfig(model.materialNames[i])]
  /\ UNCHANGED <<exportProgress, error, picks, timers, ex, edits, nexports,
                 meshVars, codecVars>>

\* parseModelFile rejects (unsupported format, no geometry).
ParseRejects ==
  /\ parsing
  /\ parsing' = FALSE
  /\ UNCHANGED <<storeVars, error, picks, timers, ex, edits, nexports,
                 meshVars, codecVars>>

\* The toolbar's Reset button.
ResetClick ==
  /\ edits < MaxEdits
  /\ parsedModel # None
  /\ StoreReset
  /\ edits' = edits + 1
  /\ UNCHANGED <<error, picks, parsing, timers, ex, nexports, meshVars, codecVars>>

\* MaterialCard's ShaderSelector onChange: updateMaterialShader(index, filename).
ShaderChange(index, filename) ==
  /\ edits < MaxEdits
  /\ parsedModel # None
  /\ index < Len(materials)
  /\ materials' = updateMaterialShader(materials, index, filename)
  /\ edits' = edits + 1
  /\ UNCHANGED <<parsedModel, exportProgress, exportName, error, picks, parsing,
                 timers, ex, nexports, meshVars, codecVars>>

\* The samplers MaterialCard shows an editor for.
ShownSamplers(mat) == Range(ShaderOrDefault(mat.shaderName).textureParams)

\* TextureSlotEditor.handleFile up to `await getImageDimensions`.
PickFile(index, samplerName, file) ==
  /\ edits < MaxEdits
  /\ parsedModel # None
  /\ index < Len(materials)
  /\ samplerName \in ShownSamplers(materials[index + 1])
  /\ picks' = picks \cup {[materialIndex |-> index, samplerName |-> samplerName,
                           file |-> file]}
  /\ edits' = edits + 1
  /\ UNCHANGED <<storeVars, error, parsing, timers, ex, nexports, meshVars, codecVars>>

\* handleFile once getImageDimensions settles: updateMaterialTexture.
PickSettles(p) ==
  /\ p \in picks
  /\ picks' = picks \ {p}
  /\ materials' = updateMaterialTexture(materials, p.materialIndex, p.samplerName,
                                        SlotFor(p.file))
  /\ UNCHANGED <<parsedModel, exportProgress, exportName, error, parsing, timers,
                 ex, edits, nexports, meshVars, codecVars>>

\* TextureSlotEditor.clearTexture (the button shows when the slot has a file).
ClearTexture(index, samplerName) ==
  /\ edits < MaxEdits
  /\ parsedModel # None
  /\ index < Len(materials)
  /\ samplerName \in ShownSamplers(materials[index + 1])
  /\ HasKey(materials[index + 1].textures, samplerName)
  /\ SlotOf(materials[index + 1].textures, samplerName).file # None
  /\ materials' = updateMaterialTexture(materials, index, samplerName, ClearedSlot)
  /\ edits' = edits + 1
  /\ UNCHANGED <<parsedModel, exportProgress, exportName, error, picks, parsing,
                 timers, ex, nexports, meshVars, codecVars>>

\* const isExporting = exportProgress !== null && exportProgress.percent < 100
isExporting == exportProgress # None /\ Get(exportProgress).percent < 100

InFlight(e) == e.pc \in {"encoding", "zipping"}

\* What a stretch of exportYdr leaves behind when it reaches an await or
\* throws: the last progress event is the store's exportProgress; an error
\* thrown lands in handleExport's catch (setError, setExportProgress(null)).
Put(calls, j, e) ==
  IF j = Len(calls) + 1 THEN Append(calls, e) ELSE [calls EXCEPT ![j] = e]

Lands(calls, j, e, err) ==
  IF e.pc = "threw"
  THEN /\ ex' = Put(calls, j, [e EXCEPT !.pc = "failed"])
       /\ error' = Some("Export failed")
       /\ exportProgress' = None
  ELSE /\ ex' = Put(calls, j, e)
       /\ error' = err
       /\ exportProgress' = Some(e.events[Len(e.events)])

\* ExportPanel.handleExport (the button is enabled): setError(null), then
\* exportYdr up to its first await. ex lists the calls in flight and, until
\* the next call starts, those that ended.
ExportClicked ==
  /\ parsedModel # None
  /\ ~isExporting
  /\ nexports' = nexports + 1
  /\ \E xmlOk \in BOOLEAN :
       LET e0 == NewExport(IF exportName = <<>> THEN Chars_prop ELSE exportName,
                           Get(parsedModel), materials)
           running == SelectSeq(ex, InFlight)
       IN Lands(running, Len(running) + 1, RunLoop(e0, 1, xmlOk), None)
  /\ UNCHANGED <<parsedModel, materials, exportName, picks, parsing, timers, edits,
                 meshVars, codecVars>>

\* A click on the export button, while the run may still start an export.
HandleExport ==
  /\ nexports < MaxExports
  /\ ExportClicked

\* encodeToDds settles for export j: the rest of the loop up to the next await.
EncodeSettles(j) ==
  /\ ex[j].pc = "encoding"
  /\ \E xmlOk \in BOOLEAN :
       Lands(ex, j, RunLoop(AfterEncode(ex[j]), ex[j].pos + 1, xmlOk), error)
  /\ UNCHANGED <<parsedModel, materials, exportName, picks, parsing, timers, edits,
                 nexports, meshVars, codecVars>>

\* zip.generateAsync resolves: saveAs, the last event, and handleExport arms
\* the timer that clears the progress.
ZipResolves(j) ==
  /\ ex[j].pc = "zipping"
  /\ Lands(ex, j, AfterZip(ex[j]), error)
  /\ timers' = timers + 1
  /\ UNCHANGED <<parsedModel, materials, exportName, picks, parsing, edits,
                 nexports, meshVars, codecVars>>

\* zip.generateAsync rejects.
ZipRejects(j) ==
  /\ ex[j].pc = "zipping"
  /\ Lands(ex, j, [ex[j] EXCEPT !.pc = "threw"], error)
  /\ UNCHANGED <<parsedModel, materials, exportName, picks, parsing, timers, edits,
                 nexports, meshVars, codecVars>>

\* The timer armed after a finished export fires: setExportProgress(null).
TimerFires ==
  /\ timers > 0
  /\ timers' = timers - 1
  /\ exportProgress' = None
  /\ UNCHANGED <<parsedModel, materials, exportName, error, picks, parsing, ex,
                 edits, nexports, meshVars, codecVars>>

Next ==
  \/ StartImport
  \/ \E model \in ImportableModels : ParseResolves(model)
  \/ ParseRejects
  \/ ResetClick
  \/ \E index \in 0..1, filename \in ShaderChoices : ShaderChange(index, filename)
  \/ \E index \in 0..1, samplerName \in Range(DIFFUSE_BUMP), file \in UserFiles :
       PickFile(index, samplerName, file)
  \/ \E p \in picks : PickSettles(p)
  \/ \E index \in 0..1, samplerName \in Range(DIFFUSE_BUMP) :
       ClearTexture(index, samplerName)
  \/ HandleExport
  \/ \E j \in 1..Len(ex) : EncodeSettles(j)
  \/ \E j \in 1..Len(ex) : ZipResolves(j)
  \/ \E j \in 1..Len(ex) : ZipRejects(j)
  \/ TimerFires

Spec == Init /\ [][Next]_vars

\* ------------------------------------------- SpecEdit: the material editor
\* The store once ModelBox is imported, then the editor, the Reset button and
\* further imports, with no export.
EditInit ==
  /\ parsedModel = Some(ModelBox)
  /\ materials = [i \in 1..Len(ModelBox.materialNames) |->
                    createDefaultMaterialConfig(ModelBox.materialNames[i])]
  /\ exportProgress = None
  /\ exportName = ExportNameOf(ModelBox.name)
  /\ error = None
  /\ picks = {}
  /\ parsing = FALSE
  /\ timers = 0
  /\ ex = <<>>
  /\ edits = 0
  /\ nexports = 0
  /\ MeshIdle
  /\ CodecIdle

EditNext ==
  \/ StartImport
  \/ \E model \in ImportableModels : ParseResolves(model)
  \/ ParseRejects
  \/ ResetClick
  \/ \E index \in 0..1, filename \in ShaderChoices : ShaderChange(index, filename)
  \/ \E index \in 0..1, samplerName \in Range(DIFFUSE_BUMP), file \in UserFiles :
       PickFile(index, samplerName, file)
  \/ \E p \in picks : PickSettles(p)
  \/ \E index \in 0..1, samplerName \in Range(DIFFUSE_BUMP) :
       ClearTexture(index, samplerName)

SpecEdit == EditInit /\ [][EditNext]_vars

\* --------------------------------------------- SpecPanel: the export panel
\* The store once ModelBox is imported and, for one of the two starts, a
\* picture is assigned to the first material; then clicks on the export
\* button, the exports' awaits settling and the timers, with no edit.
PanelMaterials ==
  LET fresh == [i \in 1..Len(ModelBox.materialNames) |->
                  createDefaultMaterialConfig(ModelBox.materialNames[i])]
  IN {fresh, updateMaterialTexture(fresh, 0, "DiffuseSampler", SlotFor(FileA))}

PanelInit ==
  /\ parsedModel = Some(ModelBox)
  /\ materials \in PanelMaterials
  /\ exportProgress = None
  /\ exportName = ExportNameOf(ModelBox.name)
  /\ error = None
  /\ picks = {}
  /\ parsing = FALSE
  /\ timers = 0
  /\ ex = <<>>
  /\ edits = 0
  /\ nexports = 0
  /\ MeshIdle
  /\ CodecIdle

\* A click on the export button, among the MaxClicks the run holds.
PanelExport ==
  /\ nexports < MaxClicks
  /\ ExportClicked

PanelNext ==
  \/ PanelExport
  \/ \E j \in 1..Len(ex) : EncodeSettles(j)
  \/ \E j \in 1..Len(ex) : ZipResolves(j)
  \/ \E j \in 1..Len(ex) : ZipRejects(j)
  \/ TimerFires

SpecPanel == PanelInit /\ [][PanelNext]_vars

\* ------------------------------------------------- SpecMesh: extractSubMesh
\* The geometries enumerated: an index buffer of up to MaxIndices entries over
\* vertices 0..MaxVerts-1, with or without uvs and colors (of item size 3 or
\* 4), and a group (start, count) inside the buffer. extractModelData has made
\* the geometry indexed and given it normals.
IndexBuffers(maxLen, verts) == UNION {[1..n -> 0..(verts - 1)] : n \in 0..maxLen}

Geometries(maxLen, verts) ==
  {[index |-> ib, hasNormal |-> TRUE, hasUv |-> uv, colorItemSize |-> cs,
    start |-> st, count |-> ct] :
     ib \in IndexBuffers(maxLen, verts), uv \in BOOLEAN, cs \in {0, 3, 4},
     st \in 0..maxLen, ct \in 0..maxLen}

MainIdle ==
  /\ parsedModel = None /\ materials = <<>> /\ exportProgress = None
  /\ exportName = Chars_prop /\ error = None /\ picks = {} /\ parsing = FALSE
  /\ timers = 0 /\ ex = <<>> /\ edits = 0 /\ nexports = 0

MeshInit ==
  /\ geo \in {Some(g) : g \in {h \in Geometries(MaxIndices, MaxVerts) :
                                 h.start + h.count <= Len(h.index)}}
  /\ mpc = "call"
  /\ sub = None
  /\ ExtractIdle
  /\ TextIdle
  /\ MainIdle
  /\ CodecIdle

\* extractSubMesh(geo, group.start, group.count, globalMatIdx, matName)
ExtractCall ==
  /\ mpc = "call"
  /\ mpc' = "returned"
  /\ sub' = extractSubMesh(Get(geo), Get(geo).start, Get(geo).count, 0, Name_Wood)
  /\ UNCHANGED <<geo, scene, xpc, xout, updates, textVars, mainVars, codecVars>>

MeshNext == ExtractCall

SpecMesh == MeshInit /\ [][MeshNext]_vars

\* --------------------------------------------------- SpecCodec: encodeToDds
\* The sizes enumerated: 1..MaxDim and a few around the 4096 cap.
Dims(maxDim) == (1..maxDim) \cup {258, 4096, 5000, 6144, 8000}

AlphaPatterns == {<<255, 255>>, <<255, 100>>, <<250, 254>>, <<249, 255>>}

CodecName == <<"t", ".", "x">>

\* The files enumerated: pictures (decodable or not) and containers, whole or
\* cut short, of the two known formats and of another one (DXT3).
CodecFiles(maxDim) ==
  {Picture(CodecName, w, h, a, TRUE) :
     w \in Dims(maxDim), h \in Dims(maxDim), a \in AlphaPatterns}
  \cup {Picture(CodecName, 0, 0, <<>>, FALSE)}
  \cup {Container(CodecName, b, w, h, cc) :
          b \in {16, 60, 136}, w \in {4, 8}, h \in {4},
          cc \in {FOURCC_DXT1, FOURCC_DXT5, 861165636}}

CodecInit ==
  /\ cin \in {Some([file |-> file, forceFormat |-> ff]) :
                file \in CodecFiles(MaxDim), ff \in {Null, "DXT1", "DXT5"}}
  /\ cpc = "call"
  /\ cdec = None
  /\ cres = None
  /\ BuildIdle
  /\ MainIdle
  /\ MeshIdle

\* encodeToDds, the pass-through branch (lines 146-153).
CodecPassThrough ==
  /\ cpc = "call"
  /\ isDdsFile(Get(cin).file.data)
  /\ LET r == PassThrough(Get(cin).file.data)
     IN IF r.ok THEN cpc' = "returned" /\ cres' = Some(r)
        ELSE cpc' = "threw" /\ cres' = None
  /\ UNCHANGED <<cin, cdec, buildVars, mainVars, meshVars>>

\* decodeImageToRGBA resolves (img.onload).
CodecDecode ==
  /\ cpc = "call"
  /\ ~isDdsFile(Get(cin).file.data)
  /\ Get(cin).file.data.decodable
  /\ cdec' = Some(decodeImageToRGBA(Get(cin).file.data))
  /\ cpc' = "decoded"
  /\ UNCHANGED <<cin, cres, buildVars, mainVars, meshVars>>

\* decodeImageToRGBA rejects (img.onerror).
CodecDecodeError ==
  /\ cpc = "call"
  /\ ~isDdsFile(Get(cin).file.data)
  /\ ~Get(cin).file.data.decodable
  /\ cpc' = "threw"
  /\ UNCHANGED <<cin, cdec, cres, buildVars, mainVars, meshVars>>

\* encodeToDds, lines 158-169: format, compression, container.
CodecCompress ==
  /\ cpc = "decoded"
  /\ cres' = Some(CompressAndBuild(Get(cdec), Get(cin).forceFormat))
  /\ cpc' = "returned"
  /\ UNCHANGED <<cin, cdec, buildVars, mainVars, meshVars>>

CodecNext ==
  \/ CodecPassThrough
  \/ CodecDecode
  \/ CodecDecodeError
  \/ CodecCompress

SpecCodec == CodecInit /\ [][CodecNext]_vars

\* ---------------------------------------------- SpecExtract: extractModelData
\* The nodes enumerated. Every group lies inside the index.
Node(isMesh, posCount, index, groups, material, hasUv, colorItemSize) ==
  [isMesh |-> isMesh, posCount |-> posCount, index |-> index, groups |-> groups,
   material |-> material, hasUv |-> hasUv, colorItemSize |-> colorItemSize]
Group(start, count, materialIndex) ==
  [start |-> start, count |-> count, materialIndex |-> materialIndex]
\* A material object: id tells the objects apart, as references do in the
\* source (two nodes of a scene that hold the material of one id share it).
Material(id, name) == Some([id |-> id, name |-> name])

\* An Object3D that is no Mesh.
NodeGroup == Node(FALSE, 0, None, <<>>, <<None>>, FALSE, 0)
\* A non-indexed triangle with no material.
NodeBare == Node(TRUE, 3, None, <<>>, <<None>>, FALSE, 3)
\* Two groups on an array of two materials, the second one unnamed.
NodeMulti ==
  Node(TRUE, 4, Some(<<0, 1, 2, 2, 1, 3>>),
       <<Group(0, 3, Some(0)), Group(3, 3, Some(1))>>,
       <<Material("wood", Name_Wood), Material("unnamed", <<>>)>>, TRUE, 4)
\* A group whose materialIndex names no material, and an empty group with no
\* materialIndex, on a material called Material_1.
NodeOdd ==
  Node(TRUE, 3, Some(<<2, 1, 0>>),
       <<Group(0, 3, Some(5)), Group(0, 0, None)>>,
       <<Material("material_1", Name_Material_1)>>, FALSE, 0)
\* A mesh with no vertex.
NodeEmpty == Node(TRUE, 0, None, <<>>, <<Material("wood", Name_Wood)>>, FALSE, 0)

NodeKinds == {NodeGroup, NodeBare, NodeMulti, NodeOdd, NodeEmpty}
Scenes(maxNodes) == UNION {[1..n -> NodeKinds] : n \in 0..maxNodes}
SceneFile == <<"B", "o", "x", ".", "g", "l", "b">>

\* The store updates enumerated: indices with and without a material, a
\* catalog shader and an unknown one.
UpdateIndices == 0..1
UpdateShaders == {"default.sps", "normal.sps", "unknown.sps"}
UpdateSamplers == {"DiffuseSampler", "BumpSampler"}
UpdateSlots == {SlotFor(FileA), ClearedSlot}

\* The positions after importModel: xpc names the last store call.
InStore == {"imported", "shader", "texture"}

ExtractInit ==
  /\ scene \in {Some([nodes |-> n, filename |-> SceneFile]) : n \in Scenes(MaxNodes)}
  /\ xpc = "call"
  /\ xout = None
  /\ updates = 0
  /\ geo = None /\ mpc = "off" /\ sub = None
  /\ TextIdle
  /\ MainIdle
  /\ CodecIdle

\* extractModelData returns the Model.
ExtractReturns ==
  /\ xpc = "call"
  /\ extractModelData(Get(scene).nodes, Get(scene).filename).ok
  /\ xout' = Some(extractModelData(Get(scene).nodes, Get(scene).filename))
  /\ xpc' = "returned"
  /\ UNCHANGED <<scene, updates, geo, mpc, sub, textVars, mainVars, codecVars>>

\* extractModelData throws.
ExtractThrows ==
  /\ xpc = "call"
  /\ ~extractModelData(Get(scene).nodes, Get(scene).filename).ok
  /\ xout' = Some(extractModelData(Get(scene).nodes, Get(scene).filename))
  /\ xpc' = "threw"
  /\ UNCHANGED <<scene, updates, geo, mpc, sub, textVars, mainVars, codecVars>>

\* importModel(model)
ImportModel ==
  /\ xpc = "returned"
  /\ xpc' = "imported"
  /\ parsedModel' = Some(Get(xout).model)
  /\ exportName' = ExportNameOf(Get(xout).model.name)
  /\ materials' = [i \in 1..Len(Get(xout).model.materialNames) |->
                     createDefaultMaterialConfig(Get(xout).model.materialNames[i])]
  /\ UNCHANGED <<exportProgress, error, picks, parsing, timers, ex, edits, nexports,
                 scene, xout, updates, geo, mpc, sub, textVars, codecVars>>

\* updateMaterialShader(index, shaderFilename)
StoreShader(index, shaderFilename) ==
  /\ xpc \in InStore
  /\ xpc' = "shader"
  /\ updates < MaxUpdates
  /\ materials' = updateMaterialShader(materials, index, shaderFilename)
  /\ updates' = updates + 1
  /\ UNCHANGED <<parsedModel, exportProgress, exportName, error, picks, parsing,
                 timers, ex, edits, nexports, scene, xout, geo, mpc, sub,
                 textVars, codecVars>>

\* updateMaterialTexture(index, samplerName, data)
StoreTexture(index, samplerName, data) ==
  /\ xpc \in InStore
  /\ xpc' = "texture"
  /\ updates < MaxUpdates
  /\ materials' = updateMaterialTexture(materials, index, samplerName, data)
  /\ updates' = updates + 1
  /\ UNCHANGED <<parsedModel, exportProgress, exportName, error, picks, parsing,
                 timers, ex, edits, nexports, scene, xout, geo, mpc, sub,
                 textVars, codecVars>>

ExtractNext ==
  \/ ExtractReturns
  \/ ExtractThrows
  \/ ImportModel
  \/ \E index \in UpdateIndices, shaderFilename \in UpdateShaders :
       StoreShader(index, shaderFilename)
  \/ \E index \in UpdateIndices, samplerName \in UpdateSamplers, data \in UpdateSlots :
       StoreTexture(index, samplerName, data)

SpecExtract == ExtractInit /\ [][ExtractNext]_vars

\* ------------------------------------------------------------ SpecFormat: f
\* The numbers enumerated: integer parts 0, 9 and 99 with up to MaxFrac
\* digits after the point (zeros, digits that round down, digits that round
\* up and carry), the catalog's and the documentation's values, a value
\* halfway between two 7-digit decimals that a double holds exactly
\* (1/256), and whole numbers on both sides of 10^21. No other decimal
\* halfway between two 7-digit decimals is enumerated: which way its double
\* rounds depends on its binary expansion.
Fracs(maxFrac) == UNION {[1..k -> {0, 4, 9}] : k \in 0..maxFrac}
SpecialFracs ==
  {<<1, 2, 5>>, <<9, 7>>, <<3, 3, 3, 3, 3, 3, 3, 3>>, <<0, 0, 3, 9, 0, 6, 2, 5>>,
   <<1, 0, 0, 0, 5>>}
SmallInts == {<<0>>, <<9>>, <<9, 9>>}
Ten20 == <<1>> \o [i \in 1..20 |-> 0]
Ten21 == <<1>> \o [i \in 1..21 |-> 0]
LargeInts == {<<1, 0, 0>>, Ten20, Ten21, <<1, 5>> \o [i \in 1..20 |-> 0]}

Numbers(maxFrac) ==
  {Num(neg, int, frac) :
     neg \in BOOLEAN, int \in SmallInts, frac \in Fracs(maxFrac) \cup SpecialFracs}
  \cup {Num(neg, int, <<>>) : neg \in BOOLEAN, int \in LargeInts}

FormatInit ==
  /\ fin \in {Some(n) : n \in Numbers(MaxFrac)}
  /\ fpc = "call"
  /\ fout = None
  /\ tin = None /\ tpc = "off" /\ tout = None
  /\ geo = None /\ mpc = "off" /\ sub = None
  /\ ExtractIdle
  /\ MainIdle
  /\ CodecIdle

\* f(n)
FormatCall ==
  /\ fpc = "call"
  /\ fout' = Some(f(Get(fin)))
  /\ fpc' = "returned"
  /\ UNCHANGED <<fin, tin, tpc, tout, geo, mpc, sub, scene, xpc, xout, updates,
                 mainVars, codecVars>>

FormatNext == FormatCall

SpecFormat == FormatInit /\ [][FormatNext]_vars

\* -------------------------------------------------------- SpecEscape: escXml
\* The texts enumerated: up to MaxText characters among a letter, the
\* characters escXml replaces, the apostrophe and the semicolon. The text is
\* the export's name, the name of the model's one material and the stem of
\* the file in its diffuse slot.
EscapeChars == {"a", "&", "<", ">", "\"", "'", ";"}
Texts(maxLen) == UNION {[1..k -> EscapeChars] : k \in 0..maxLen}

EscapeInit ==
  /\ tin \in {Some(t) : t \in Texts(MaxText)}
  /\ tpc = "call"
  /\ tout = None
  /\ fin = None /\ fpc = "off" /\ fout = None
  /\ geo = None /\ mpc = "off" /\ sub = None
  /\ ExtractIdle
  /\ MainIdle
  /\ CodecIdle

\* generateYdrXml({name, model, materials, textures}) as exportYdr calls it
\* once the one texture is converted.
WriteDocument ==
  LET name == Get(tin)
      model == [name |-> name,
                meshes |-> <<[materialIndex |-> 0, materialName |-> name]>>,
                materialNames |-> <<name>>]
      texName == sanitizeTextureName(name \o <<".", "p", "n", "g">>)
      entry == [name |-> texName, samplerName |-> "DiffuseSampler",
                width |-> 4, height |-> 4, format |-> "DXT1",
                fileName |-> DdsFileName(texName)]
  IN /\ tpc = "call"
     /\ tout' = Some(generateYdrXml(name, model, <<createDefaultMaterialConfig(name)>>,
                                    <<entry>>))
     /\ tpc' = "written"
     /\ UNCHANGED <<tin, fin, fpc, fout, geo, mpc, sub, scene, xpc, xout, updates,
                    mainVars, codecVars>>

EscapeNext == WriteDocument

SpecEscape == EscapeInit /\ [][EscapeNext]_vars

\* -------------------------------------------------- SpecBuild: buildDdsFile
\* The sizes and formats enumerated for one compress-and-build (encodeToDds
\* lines 162-167), whose container is then handed to encodeToDds as a file.
BuildSizes(maxDim) == (1..maxDim) \cup {4096}

BuildInit ==
  /\ bin \in {Some([width |-> w, height |-> h, format |-> fmt]) :
                w \in BuildSizes(MaxDim), h \in BuildSizes(MaxDim),
                fmt \in {"DXT1", "DXT5"}}
  /\ bpc = "call"
  /\ bout = None
  /\ bback = None
  /\ BlockIdle
  /\ cin = None /\ cpc = "off" /\ cdec = None /\ cres = None
  /\ MainIdle
  /\ MeshIdle

\* compressBC1 / compressBC3, then buildDdsFile.
BuildCall ==
  /\ bpc = "call"
  /\ LET in == Get(bin)
         stream == CompressedLength(in.width, in.height, in.format)
     IN bout' = Some([stream |-> stream,
                      dds |-> buildDdsFile(stream, in.width, in.height, in.format)])
  /\ bpc' = "built"
  /\ UNCHANGED <<bin, bback, blockVars, cin, cpc, cdec, cres, mainVars, meshVars>>

\* encodeToDds(file, forceFormat) on a file holding the container built.
FeedBack(forceFormat) ==
  /\ bpc = "built"
  /\ bback' = Some([forceFormat |-> forceFormat,
                    result |-> encodeToDds([name |-> CodecName,
                                            data |-> Get(bout).dds], forceFormat)])
  /\ bpc' = "fedback"
  /\ UNCHANGED <<bin, bout, blockVars, cin, cpc, cdec, cres, mainVars, meshVars>>

BuildNext ==
  \/ BuildCall
  \/ \E forceFormat \in {Null, "DXT1", "DXT5"} : FeedBack(forceFormat)

SpecBuild == BuildInit /\ [][BuildNext]_vars

\* ------------------------------------- SpecBlock: compressBC1, compressBC3
\* The pixels enumerated: colors whose packed values coincide (red 255, 250,
\* 248), colors far apart, opaque, nearly opaque and translucent.
TexelValues ==
  { Texel(255, 255, 255, 255), Texel(250, 255, 255, 255), Texel(248, 255, 255, 254),
    Texel(0, 0, 0, 255), Texel(255, 255, 255, 0),
    Texel(100, 180, 90, 128) }

\* The picture sizes (powers of two, as decodeImageToRGBA makes them): one
\* whole block, a picture smaller than a block (its edge pixels repeated)
\* and one of two blocks.
PictureSizes == {<<4, 4>>, <<2, 1>>, <<8, 4>>}

\* The pictures of a size: the first maxTexels - 1 pixels and the last are
\* enumerated, the others repeat the first.
Pictures(maxTexels) ==
  {[width |-> size[1], height |-> size[2],
    data |-> [k \in 1..(size[1] * size[2]) |->
                IF k = size[1] * size[2] THEN free[maxTexels]
                ELSE IF k < maxTexels THEN free[k]
                ELSE free[1]]] :
     size \in PictureSizes, free \in [1..maxTexels -> TexelValues]}

BlockInit ==
  /\ img \in {Some([data |-> p.data, width |-> p.width, height |-> p.height,
                    format |-> fmt]) :
                p \in Pictures(MaxTexels), fmt \in {"DXT1", "DXT5"}}
  /\ ipc = "call"
  /\ iout = None
  /\ bin = None /\ bpc = "off" /\ bout = None /\ bback = None
  /\ cin = None /\ cpc = "off" /\ cdec = None /\ cres = None
  /\ MainIdle
  /\ MeshIdle

\* format === "DXT1" ? compressBC1(data, width, height) : ...
CompressDXT1 ==
  /\ ipc = "call"
  /\ Get(img).format = "DXT1"
  /\ iout' = Some(compressBC1(Get(img).data, Get(img).width, Get(img).height))
  /\ ipc' = "compressed"
  /\ UNCHANGED <<img, bin, bpc, bout, bback, cin, cpc, cdec, cres, mainVars, meshVars>>

\* ... : compressBC3(data, width, height)
CompressDXT5 ==
  /\ ipc = "call"
  /\ Get(img).format # "DXT1"
  /\ iout' = Some(compressBC3(Get(img).data, Get(img).width, Get(img).height))
  /\ ipc' = "compressed"
  /\ UNCHANGED <<img, bin, bpc, bout, bback, cin, cpc, cdec, cres, mainVars, meshVars>>

BlockNext ==
  \/ CompressDXT1
  \/ CompressDXT5

SpecBlock == BlockInit /\ [][BlockNext]_vars

\* =================================================================== claims
\* ------------------------------------------------------------------ C4, C5
\* The original indices a group references, the place each is first seen at,
\* and its rank in first-appearance order.
GroupSlice == [k \in 1..Get(geo).count |-> Get(geo).index[Get(geo).start + k]]
GroupVertices == Range(GroupSlice)
FirstSeenAt(v) == CHOOSE k \in 1..Len(GroupSlice) :
                    GroupSlice[k] = v /\ \A h \in 1..(k - 1) : GroupSlice[h] # v
RankOf(v) == Cardinality({u \in GroupVertices : FirstSeenAt(u) < FirstSeenAt(v)})
VertexCountOf(mesh) == Len(mesh.positions) \div 3

\* C4: a mesh extractSubMesh emits for a group has as many vertices as the
\* group references distinct original indices, and its index buffer holds
\* exactly the values 0 .. vertexCount-1 (none out of range, no vertex
\* unreferenced).
C4_DedupInvariant ==
  (mpc = "returned" /\ sub # None) =>
     LET mesh == Get(sub)
     IN /\ Len(mesh.positions) = 3 * VertexCountOf(mesh)
        /\ Len(mesh.normals) = 3 * VertexCountOf(mesh)
        /\ Len(mesh.uvs) = 2 * VertexCountOf(mesh)
        /\ VertexCountOf(mesh) = Cardinality(GroupVertices)
        /\ Range(mesh.indices) = 0..(VertexCountOf(mesh) - 1)

\* A group of four indices over two vertices has been extracted.
C4_Witness ==
  /\ mpc = "returned" /\ sub # None
  /\ Get(geo).count = 4
  /\ VertexCountOf(Get(sub)) = 2

\* C5: the emitted index at position k is the first-appearance rank of the
\* original index at start+k, and output vertex j carries the position,
\* normal, uv and color of the j-th first-seen original vertex.
C5_FirstAppearanceOrder ==
  (mpc = "returned" /\ sub # None) =>
     LET mesh == Get(sub)
         g == Get(geo)
     IN /\ Len(mesh.indices) = g.count
        /\ \A k \in 1..g.count : mesh.indices[k] = RankOf(GroupSlice[k])
        /\ \A v \in GroupVertices :
             LET j == RankOf(v)
             IN /\ SubSeq(mesh.positions, 3 * j + 1, 3 * j + 3) = SrcPosition(v)
                /\ SubSeq(mesh.normals, 3 * j + 1, 3 * j + 3) = SrcNormal(v)
                /\ g.hasUv => SubSeq(mesh.uvs, 2 * j + 1, 2 * j + 2) = SrcUv(v)
                /\ g.colorItemSize = 4 =>
                     SubSeq(Get(mesh.colors), 4 * j + 1, 4 * j + 4) = SrcColor(v)
                /\ g.colorItemSize = 3 =>
                     SubSeq(Get(mesh.colors), 4 * j + 1, 4 * j + 4)
                       = SubSeq(SrcColor(v), 1, 3) \o <<1>>

\* A group that sees vertex 2 before vertex 0 has been extracted, with uvs
\* and colors: output vertex 0 is original vertex 2.
C5_Witness ==
  /\ mpc = "returned" /\ sub # None
  /\ Get(geo).hasUv /\ Get(geo).colorItemSize = 4
  /\ GroupSlice = <<2, 0, 2>>
  /\ Get(sub).indices = <<0, 1, 0>>
  /\ SubSeq(Get(sub).positions, 1, 3) = SrcPosition(2)

\* ----------------------------------------------------------------- C9, C10
FourCcOf(format) == IF format = "DXT1" THEN FOURCC_DXT1 ELSE FOURCC_DXT5

\* C9, as stated: whenever forceFormat is given, the returned format and the
\* four-character code of the returned container equal it, for every source
\* file, a container included.
C9_AsStated ==
  (cpc = "returned" /\ Get(cin).forceFormat # Null) =>
     /\ Get(cres).format = Get(cin).forceFormat
     /\ Get(cres).dds.fourCC = FourCcOf(Get(cin).forceFormat)

\* C9, amended: when forceFormat is given and the source is not already a
\* container, the returned format and the container's four-character code
\* equal it; a source that already is a container is returned as it is, with
\* the format read from its header (DXT5 for that code, DXT1 otherwise),
\* whatever forceFormat says.
C9_ForceFormat ==
  cpc = "returned" =>
     LET in == Get(cin)
         out == Get(cres)
     IN IF isDdsFile(in.file.data)
        THEN /\ out.dds = in.file.data
             /\ out.format = (IF in.file.data.fourCC = FOURCC_DXT5 THEN "DXT5" ELSE "DXT1")
        ELSE in.forceFormat # Null =>
               /\ out.format = in.forceFormat
               /\ out.dds.fourCC = FourCcOf(in.forceFormat)

\* An opaque picture has been encoded as DXT5 because the caller said so.
C9_Witness ==
  /\ cpc = "returned"
  /\ ~isDdsFile(Get(cin).file.data)
  /\ ~hasAlpha(Get(cin).file.data.alphas)
  /\ Get(cin).forceFormat = "DXT5"
  /\ Get(cres).format = "DXT5"
  /\ Get(cres).dds.fourCC = FOURCC_DXT5

\* The powers of two up to 2^14, the smallest one at least n, and the rule
\* as the claim words it.
PowersOfTwo == {1, 2, 4, 8, 16, 32, 64, 128, 256, 512, 1024, 2048, 4096, 8192, 16384}
SmallestPowerAtLeast(n) ==
  CHOOSE p \in PowersOfTwo : p >= n /\ \A q \in PowersOfTwo : q >= n => p <= q
RoundedSize(n) ==
  LET p == SmallestPowerAtLeast(n)
      half == p \div 2
  IN IF p >= 2 /\ (n - half) < (p - n) /\ half >= 4 THEN half ELSE p

\* C10: for n >= 1 nearestPowerOf2(n) is the smallest power of two p >= n,
\* or p/2 when n - p/2 < p - n and p/2 >= 4 (a power of two is kept); the
\* width and the height of a decoded picture are min(nearestPowerOf2(size),
\* 4096), each axis on its own, and are the sizes encodeToDds returns.
C10_PowerOfTwoSizes ==
  cdec # None =>
     LET in == Get(cin).file.data
         dec == Get(cdec)
     IN /\ dec.w0 = RoundedSize(in.w) /\ dec.w0 \in PowersOfTwo
        /\ dec.h0 = RoundedSize(in.h) /\ dec.h0 \in PowersOfTwo
        /\ in.w \in PowersOfTwo => dec.w0 = in.w
        /\ in.h \in PowersOfTwo => dec.h0 = in.h
        /\ dec.width = Min(RoundedSize(in.w), 4096)
        /\ dec.height = Min(RoundedSize(in.h), 4096)
        /\ cpc = "returned" =>
             /\ Get(cres).width = dec.width
             /\ Get(cres).height = dec.height

\* A 258 x 8000 picture has been decoded to 256 x 4096.
C10_Witness ==
  /\ cdec # None
  /\ Get(cin).file.data.w = 258 /\ Get(cin).file.data.h = 8000
  /\ Get(cdec).width = 256 /\ Get(cdec).h0 = 8192 /\ Get(cdec).height = 4096

\* ------------------------------------------------------- C1, C2, C3, C6-C8
\* What the claims say of one export, from the materials it was called with.
ConvertsOk(file) == encodeToDds(file, Null).ok
NameOfSlot(slot) == sanitizeTextureName(slot.file.name)
SlotsOf(e) == FlatSlots(e.materials, 1)
IsSome(o) == o # None

RECURSIVE DistinctInOrder(_, _)
DistinctInOrder(s, seen) ==
  IF s = <<>> THEN <<>>
  ELSE IF Head(s) \in seen THEN DistinctInOrder(Tail(s), seen)
  ELSE <<Head(s)>> \o DistinctInOrder(Tail(s), seen \cup {Head(s)})

\* The sanitized names of the slots whose file converts, in slot order.
ConvertedNames(e) ==
  LET ok == SelectSeq(SlotsOf(e), LAMBDA slot : ConvertsOk(slot.file))
  IN [i \in 1..Len(ok) |-> NameOfSlot(ok[i])]

DictionaryNames(e) ==
  [i \in 1..Len(Get(e.xml).textureDictionary) |-> Get(e.xml).textureDictionary[i].name]

\* C1, as stated: a texture parameter item names a texture only when that
\* material has a file in that sampler slot whose sanitized name is the one
\* named and that texture was converted; otherwise it is the placeholder.
C1_AsStated ==
  \A e \in Range(ex) :
    e.xml # None =>
      \A m \in 1..Len(e.materials) :
        \A k \in 1..Len(Get(e.xml).shaders[m].textureParams) :
          LET tp == Get(e.xml).shaders[m].textureParams[k]
              mat == e.materials[m]
          IN tp.tex # None =>
               /\ HasKey(mat.textures, tp.name)
               /\ SlotOf(mat.textures, tp.name).file # None
               /\ sanitizeTextureName(Get(SlotOf(mat.textures, tp.name).file).name)
                    = Get(tp.tex)
               /\ \E d \in Range(e.ddsFiles) : d.fileName = DdsFileName(Get(tp.tex))

\* C2, as stated: the texture dictionary is the distinct sanitized names of
\* the converted textures, each once, in first-appearance order, and has as
\* many items as DDS files are packaged.
C2_AsStated ==
  \A e \in Range(ex) :
    e.xml # None =>
      /\ DictionaryNames(e) = DistinctInOrder(ConvertedNames(e), {})
      /\ Len(Get(e.xml).textureDictionary) = Len(e.ddsFiles)

\* C3, as stated: during one export encodeToDds is invoked at most once for a
\* sanitized texture name, whatever the first invocation's outcome.
C3_AsStated ==
  \A e \in Range(ex) :
    \A i, j \in 1..Len(e.calls) :
      i < j => sanitizeTextureName(e.calls[i].name) # sanitizeTextureName(e.calls[j].name)

\* C6: a texture whose conversion fails does not abort the export: the loop
\* runs to its end (an export that failed got as far as the serializer), the
\* document and the archive are made, and the export that finishes ends with
\* the 100% event; every Texture Entry and DDS file comes from a slot whose
\* file converted, and every file that converts is in the archive.
C6_EncodeFailureSkipped ==
  \A e \in Range(ex) :
    /\ \A t \in Range(e.textureEntries) :
         \E slot \in Range(SlotsOf(e)) :
           /\ ConvertsOk(slot.file)
           /\ t.name = NameOfSlot(slot)
           /\ t.width = encodeToDds(slot.file, Null).width
           /\ t.height = encodeToDds(slot.file, Null).height
    /\ \A d \in Range(e.ddsFiles) :
         \E slot \in Range(SlotsOf(e)) :
           /\ ConvertsOk(slot.file)
           /\ d.fileName = DdsFileName(NameOfSlot(slot))
           /\ d.data = encodeToDds(slot.file, Null).dds
    /\ e.pc = "failed" => Event("Generating YDR XML...", 70) \in Range(e.events)
    /\ e.pc \in {"zipping", "done"} =>
         /\ e.xml # None /\ e.zip # None
         /\ \A slot \in Range(SlotsOf(e)) :
              ConvertsOk(slot.file) =>
                \E z \in Range(Get(e.zip)) :
                  /\ z.path = e.name \o <<"/">> \o DdsFileName(NameOfSlot(slot))
                  /\ z.data = encodeToDds(slot.file, Null).dds
    /\ e.pc = "done" =>
         /\ e.saved # None /\ Get(e.saved).blob = Get(e.zip)
         /\ e.events[Len(e.events)] = Event("Export complete!", 100)

\* An export finished although one of its two textures failed to convert:
\* the other one is in the archive, the failed one is nowhere.
C6_Witness ==
  \E e \in Range(ex) :
    /\ e.pc = "done"
    /\ e.failed = <<FileBad>>
    /\ Len(e.ddsFiles) = 1
    /\ Len(Get(e.zip)) = 2
    /\ \A t \in Range(e.textureEntries) : t.name # sanitizeTextureName(FileBad.name)

\* An export whose serializer threw: it failed with no document.
XmlFailed(e) == e.pc = "failed" /\ e.xml = None

\* C7: when generateYdrXml throws, nothing is packaged (no archive, no
\* saveAs), no event follows "Generating YDR XML..." (so no 100%), and in the
\* step it throws in handleExport reports the error and clears the progress.
C7_SerializerFailureAborts ==
  /\ [](\A e \in Range(ex) :
          XmlFailed(e) =>
            /\ e.zip = None /\ e.saved = None
            /\ e.events[Len(e.events)] = Event("Generating YDR XML...", 70)
            /\ \A i \in 1..Len(e.events) : e.events[i].percent < 100)
  /\ [][(\E e \in Range(ex') : XmlFailed(e) /\ e \notin Range(ex)) =>
           (error' = Some("Export failed") /\ exportProgress' = None)]_vars

\* The serializer threw after a texture was converted: nothing was packaged,
\* the error shows and the progress is cleared.
C7_Witness ==
  \E e \in Range(ex) :
    /\ XmlFailed(e)
    /\ Len(e.ddsFiles) > 0
    /\ error # None
    /\ exportProgress = None

\* The entry a slot gets: that of the first slot up to it whose file has the
\* same sanitized name and converts, under this slot's sampler.
EntryOfSlot(slots, k) ==
  LET same == {j \in 1..k : /\ NameOfSlot(slots[j]) = NameOfSlot(slots[k])
                            /\ ConvertsOk(slots[j].file)}
      first == CHOOSE j \in same : \A h \in same : j <= h
      result == encodeToDds(slots[first].file, Null)
  IN IF same = {} THEN None
     ELSE Some([name |-> NameOfSlot(slots[k]), samplerName |-> slots[k].samplerName,
                width |-> result.width, height |-> result.height,
                format |-> result.format,
                fileName |-> DdsFileName(NameOfSlot(slots[k]))])

SnapshotEntries(e) ==
  LET some == SelectSeq([k \in 1..Len(SlotsOf(e)) |-> EntryOfSlot(SlotsOf(e), k)], IsSome)
  IN [i \in 1..Len(some) |-> Get(some[i])]

\* The files handed to the codec: those of the slots no earlier slot of the
\* same sanitized name has converted.
SnapshotCalls(e) ==
  LET slots == SlotsOf(e)
      at == SelectSeq([k \in 1..Len(slots) |-> k],
                      LAMBDA k : \A j \in 1..(k - 1) :
                                   \/ NameOfSlot(slots[j]) # NameOfSlot(slots[k])
                                   \/ ~ConvertsOk(slots[j].file))
  IN [i \in 1..Len(at) |-> slots[at[i]].file]

\* C8: what an export converts and the document it produces are those of the
\* model and the materials it was called with, whatever the store has become
\* since.
C8_SnapshotSemantics ==
  \A e \in Range(ex) :
    /\ Len(e.calls) <= Len(SnapshotCalls(e))
    /\ e.calls = SubSeq(SnapshotCalls(e), 1, Len(e.calls))
    /\ e.xml # None =>
         /\ e.calls = SnapshotCalls(e)
         /\ Get(e.xml) = generateYdrXml(e.name, e.model, e.materials, SnapshotEntries(e))

\* An export in flight has produced its document, with a texture in it, and
\* the store no longer holds the materials it was called with.
C8_Witness ==
  \E e \in Range(ex) :
    /\ e.pc = "zipping"
    /\ e.materials # materials
    /\ Len(Get(e.xml).textureDictionary) > 0

\* ---------------------------------------------------------------- C11, C12
\* What a reader of the header finds: the magic at 0, the height at 12, the
\* width at 16, the four-character code at 84 as a format.
FormatOfCode(fourCC) ==
  CASE fourCC = FOURCC_DXT1 -> "DXT1" [] fourCC = FOURCC_DXT5 -> "DXT5" [] OTHER -> "other"

\* C11: the header of a container built from (width, height, format) decodes
\* to that width, height and format, and encodeToDds passes the container
\* through unchanged, returning the same width, height and format.
C11_HeaderRoundTrip ==
  /\ bout # None =>
       /\ Get(bout).dds.magic = DDS_MAGIC
       /\ Get(bout).dds.height = Get(bin).height
       /\ Get(bout).dds.width = Get(bin).width
       /\ FormatOfCode(Get(bout).dds.fourCC) = Get(bin).format
  /\ bback # None =>
       /\ Get(bback).result.ok
       /\ Get(bback).result.dds = Get(bout).dds
       /\ Get(bback).result.width = Get(bin).width
       /\ Get(bback).result.height = Get(bin).height
       /\ Get(bback).result.format = Get(bin).format

\* A 7 x 12 DXT5 container has been built and passed through, with
\* forceFormat DXT1.
C11_Witness ==
  /\ bback # None
  /\ Get(bin) = [width |-> 7, height |-> 12, format |-> "DXT5"]
  /\ Get(bback).forceFormat = "DXT1"
  /\ Get(bback).result.ok
  /\ Get(bback).result.width = 7 /\ Get(bback).result.height = 12
  /\ Get(bback).result.format = "DXT5"

\* The number of 4-pixel blocks along a side of n >= 1 pixels.
BlocksAlong(n) == CHOOSE k \in 1..n : 4 * k >= n /\ 4 * (k - 1) < n
BytesPerBlock(format) == IF format = "DXT1" THEN 8 ELSE 16

\* C12: the linear-size field is ceil(width/4) * ceil(height/4) *
\* bytesPerBlock (8 for DXT1, 16 for DXT5), which is the length of the
\* compressed stream; the container is 128 header bytes plus that stream, and
\* the mip count field is 1.
C12_LinearSize ==
  bout # None =>
    LET in == Get(bin)
        size == BlocksAlong(in.width) * BlocksAlong(in.height) * BytesPerBlock(in.format)
    IN /\ Get(bout).dds.linearSize = size
       /\ Get(bout).stream = size
       /\ Get(bout).dds.bytes = 128 + size
       /\ Get(bout).dds.mipMapCount = 1

\* A 5 x 9 DXT5 container has been built: 2 x 3 blocks of 16 bytes.
C12_Witness ==
  /\ bout # None
  /\ Get(bin) = [width |-> 5, height |-> 9, format |-> "DXT5"]
  /\ Get(bout).dds.linearSize = 96
  /\ Get(bout).dds.bytes = 224

\* --------------------------------------------------------------------- C13
\* C13: for a source that is not a container and with no forceFormat,
\* encodeToDds returns DXT5 if and only if some pixel of the decoded buffer
\* has alpha below 250, and DXT1 otherwise (all 255: DXT1; one pixel at 100:
\* DXT5; only 250..254: DXT1).
C13_FormatByAlpha ==
  (cpc = "returned" /\ ~isDdsFile(Get(cin).file.data) /\ Get(cin).forceFormat = Null) =>
     LET alphas == Get(cin).file.data.alphas
         transparent == {i \in 1..Len(alphas) : alphas[i] <= 249}
     IN /\ Get(cres).format = (IF transparent # {} THEN "DXT5" ELSE "DXT1")
        /\ Get(cres).dds.fourCC = FourCcOf(Get(cres).format)
        /\ alphas = <<255, 255>> => Get(cres).format = "DXT1"
        /\ alphas = <<255, 100>> => Get(cres).format = "DXT5"
        /\ alphas = <<250, 254>> => Get(cres).format = "DXT1"

\* A picture whose alpha bytes are 250 and 254 has been encoded as DXT1.
C13_Witness ==
  /\ cpc = "returned" /\ ~isDdsFile(Get(cin).file.data)
  /\ Get(cin).forceFormat = Null
  /\ Get(cin).file.data.alphas = <<250, 254>>
  /\ Get(cres).format = "DXT1"

\* ---------------------------------------------------------------- C14 - C16
\* The Model extraction returned, and the document written for the store's
\* present state (no texture converted).
ReturnedModel == Get(xout).model
DocumentNow == generateYdrXml(exportName, Get(parsedModel), materials, <<>>)
ValidPosition(i, seq) == i >= 0 /\ i < Len(seq)

\* C14: in every Model extraction returns, and in every store state reached
\* from importModel by updateMaterialShader / updateMaterialTexture, every
\* mesh's material index is a valid position in materialNames and in
\* materials (the two have the same length), and every ShaderIndex of the
\* document refers to an item of its shader list.
C14_ValidMaterialIndex ==
  /\ xpc \in {"returned"} \cup InStore =>
       \A g \in 1..Len(ReturnedModel.meshes) :
          ValidPosition(ReturnedModel.meshes[g].materialIndex,
                        ReturnedModel.materialNames)
  /\ xpc \in InStore =>
       LET doc == DocumentNow
       IN /\ Len(materials) = Len(Get(parsedModel).materialNames)
          /\ \A g \in 1..Len(Get(parsedModel).meshes) :
               ValidPosition(Get(parsedModel).meshes[g].materialIndex, materials)
          /\ Len(doc.geometries) = Len(Get(parsedModel).meshes)
          /\ \A g \in 1..Len(doc.geometries) :
               ValidPosition(doc.geometries[g].shaderIndex, doc.shaders)

\* Two materials, a mesh on the second one, and the second one's shader and
\* textures updated.
C14_Witness ==
  /\ xpc \in InStore
  /\ updates = 2
  /\ Len(materials) = 2
  /\ \E g \in 1..Len(Get(parsedModel).meshes) :
       Get(parsedModel).meshes[g].materialIndex = 1
  /\ materials[2].shaderName = "normal.sps"
  /\ HasKey(materials[2].textures, "BumpSampler")

\* The index entries a partition of a drawable node covers.
PartitionIndices(node, group) ==
  {i \in group.start..(group.start + group.count - 1) :
     i < Len(IndexedGeometry(node).index)}

\* No drawable node, or every partition of every drawable node has no index.
NoGeometry(nodes) ==
  \A n \in 1..Len(nodes) :
     nodes[n].isMesh =>
       \A g \in 1..Len(GroupsOf(nodes[n])) :
          PartitionIndices(nodes[n], GroupsOf(nodes[n])[g]) = {}

\* C15: extraction throws the no-geometry error exactly when the scene has no
\* drawable node or every partition has no index; a Model it returns has at
\* least one mesh and each of its meshes has at least one vertex.
C15_NoGeometryError ==
  /\ xpc = "threw" =>
       /\ NoGeometry(Get(scene).nodes)
       /\ Get(xout).error = "No mesh geometry found in the imported model."
  /\ xpc \in {"returned"} \cup InStore =>
       /\ ~NoGeometry(Get(scene).nodes)
       /\ Len(ReturnedModel.meshes) >= 1
       /\ \A g \in 1..Len(ReturnedModel.meshes) :
            /\ Len(ReturnedModel.meshes[g].positions) >= 3
            /\ Len(ReturnedModel.meshes[g].indices) >= 1

\* A scene with drawable nodes none of which has an index: extraction threw.
C15_Witness ==
  /\ xpc = "threw"
  /\ \E n \in 1..Len(Get(scene).nodes) : Get(scene).nodes[n].isMesh
  /\ \E n \in 1..Len(Get(scene).nodes) : ~Get(scene).nodes[n].isMesh

\* C16 as stated: when no node of the scene has a material, the Model
\* returned has the one material name `default` and no mesh refers to it.
NoMaterials(nodes) ==
  \A n \in 1..Len(nodes) :
     nodes[n].isMesh => \A k \in 1..Len(nodes[n].material) : nodes[n].material[k] = None

Chars_default == <<"d", "e", "f", "a", "u", "l", "t">>

C16_AsStated ==
  (xpc \in {"returned"} \cup InStore /\ NoMaterials(Get(scene).nodes)) =>
     /\ ReturnedModel.materialNames = <<Chars_default>>
     /\ \A g \in 1..Len(ReturnedModel.meshes) : ReturnedModel.meshes[g].materialIndex # 0
\* C16: when no node of the scene has a material, the names of the Model
\* returned are the synthetic Material_0, Material_1, ... (one per partition
\* processed), `default` is not among them, and every mesh refers to the
\* entry that carries its name. `default` is registered only when no
\* partition was processed, and then extraction throws.
C16_SyntheticNames ==
  /\ (xpc \in {"returned"} \cup InStore /\ NoMaterials(Get(scene).nodes)) =>
       /\ \A k \in 1..Len(ReturnedModel.materialNames) :
            ReturnedModel.materialNames[k] = SyntheticName(k - 1)
       /\ Chars_default \notin Range(ReturnedModel.materialNames)
       /\ \A g \in 1..Len(ReturnedModel.meshes) :
            /\ ValidPosition(ReturnedModel.meshes[g].materialIndex,
                             ReturnedModel.materialNames)
            /\ ReturnedModel.materialNames[ReturnedModel.meshes[g].materialIndex + 1]
                 = ReturnedModel.meshes[g].materialName
  /\ (xpc = "call"
      /\ VisitNodes([materialNames |-> <<>>, meshes |-> <<>>],
                    Get(scene).nodes).materialNames = <<>>) =>
       ~extractModelData(Get(scene).nodes, Get(scene).filename).ok

\* Two meshes with no material: Material_0 and Material_1, both referenced.
C16_Witness ==
  /\ xpc = "returned"
  /\ NoMaterials(Get(scene).nodes)
  /\ Len(ReturnedModel.meshes) = 2
  /\ ReturnedModel.materialNames = <<SyntheticName(0), SyntheticName(1)>>
  /\ ReturnedModel.meshes[2].materialIndex = 1
\* --------------------------------------------------------------------- C17
KeysOf(textures) == {textures[k].key : k \in 1..Len(textures)}
ContentOf(textures, key) ==
  (CHOOSE k \in 1..Len(textures) : textures[k].key = key)
DeclaredBy(s) == Range(ShaderMapGet(s).textureParams)

\* C17: a step updateMaterialShader(i, s) with a valid index i and a catalog
\* shader s leaves material i with shader s, with slot keys among the
\* samplers s declares, with every slot of a declared sampler kept unchanged
\* and every slot of an undeclared sampler removed.
C17_ShaderChangePrunes ==
  [][\A i \in UpdateIndices, s \in UpdateShaders :
       (StoreShader(i, s) /\ i < Len(materials) /\ ShaderMapHas(s)) =>
          /\ Len(materials') = Len(materials)
          /\ materials'[i + 1].shaderName = s
          /\ materials'[i + 1].name = materials[i + 1].name
          /\ KeysOf(materials'[i + 1].textures) \subseteq DeclaredBy(s)
          /\ KeysOf(materials'[i + 1].textures)
               = KeysOf(materials[i + 1].textures) \cap DeclaredBy(s)
          /\ \A key \in KeysOf(materials[i + 1].textures) \cap DeclaredBy(s) :
               materials'[i + 1].textures[ContentOf(materials'[i + 1].textures, key)].slot
                 = materials[i + 1].textures[ContentOf(materials[i + 1].textures, key)].slot
          /\ \A key \in KeysOf(materials[i + 1].textures) \ DeclaredBy(s) :
               key \notin KeysOf(materials'[i + 1].textures)]_vars

\* The first material got a bump slot and was then given normal.sps, which
\* declares it: the slot is still there, with the file it had.
C17_Witness ==
  /\ xpc = "shader"
  /\ updates = 2
  /\ materials[1].shaderName = "normal.sps"
  /\ KeysOf(materials[1].textures) = {"BumpSampler"}
  /\ materials[1].textures[1].slot = SlotFor(FileA)
\* --------------------------------------------------------------------- C19
\* The string f returned, read back: its sign, the digits before the point
\* and the digits after it.
Unsigned(out) == IF out # <<>> /\ out[1] = "-" THEN SubSeq(out, 2, Len(out)) ELSE out
IntText(out) == SubSeq(Unsigned(out), 1, FirstDot(Unsigned(out)) - 1)
FracText(out) ==
  SubSeq(Unsigned(out), FirstDot(Unsigned(out)) + 1, Len(Unsigned(out)))
DigitOf(c) == CHOOSE d \in 0..9 : DigitChar(d) = c
RECURSIVE NatOfText(_)
NatOfText(t) ==
  IF t = <<>> THEN 0
  ELSE 10 * NatOfText(SubSeq(t, 1, Len(t) - 1)) + DigitOf(t[Len(t)])
RECURSIVE Pow10(_)
Pow10(k) == IF k = 0 THEN 1 ELSE 10 * Pow10(k - 1)
PadText(t, p) == [i \in 1..p |-> IF i <= Len(t) THEN t[i] ELSE "0"]

\* A decimal with 1 to 7 digits after the point.
IsDecimal(out) ==
  /\ FirstDot(Unsigned(out)) > 1
  /\ \A i \in 1..Len(IntText(out)) : IntText(out)[i] \in DigitChars
  /\ \A i \in 1..Len(FracText(out)) : FracText(out)[i] \in DigitChars
  /\ Len(FracText(out)) >= 1
  /\ Len(FracText(out)) <= 7

\* out is n rounded to 7 digits after the point: with p digits after the
\* point on both sides, out and n differ by at most half of 10^-7.
RoundedTo7(n, out) ==
  LET p == Max(Len(n.frac), 7)
      whole == NatOfText(IntText(out)) - NatOfText(DigitsText(n.int))
      diff == whole * Pow10(p) + NatOfText(PadText(FracText(out), p))
                - NatOfText(PadText(DigitsText(n.frac), p))
  IN /\ whole \in {0, 1}
     /\ 2 * diff <= Pow10(p - 7)
     /\ 2 * diff >= 0 - Pow10(p - 7)

Formatted(n, out) ==
  /\ IsDecimal(out)
  /\ (out[1] = "-") <=> IsNegative(n)
  /\ NumberIsInteger(n) =>
       /\ FracText(out) = <<"0">>
       /\ IntText(out) = DigitsText(n.int)
  /\ ~NumberIsInteger(n) =>
       /\ RoundedTo7(n, out)
       /\ Len(FracText(out)) = 1 \/ FracText(out)[Len(FracText(out))] # "0"

CatalogText(n) ==
  CASE n = N_0 -> <<"0", ".", "0">>
    [] n = N_1 -> <<"1", ".", "0">>
    [] n = N_100 -> <<"1", "0", "0", ".", "0">>
    [] n = N_0_125 -> <<"0", ".", "1", "2", "5">>
    [] n = N_0_97 -> <<"0", ".", "9", "7">>

\* C18: the shader list has one item per Material Configuration, in material
\* order; the texture parameters of an item, then its vector parameters, are
\* those the material's shader declares, in catalog order, the vectors with
\* the catalog's values, whatever the order of the material's slots.
C18_ShaderListOrder ==
  xpc \in InStore =>
     LET doc == DocumentNow
     IN /\ Len(doc.shaders) = Len(materials)
        /\ \A m \in 1..Len(materials) :
             LET def == ShaderMapGet(materials[m].shaderName)
                 vectors == VECTOR_PARAMS[CatalogPosition(materials[m].shaderName)]
                 item == doc.shaders[m]
             IN /\ item.name = ShaderDisplayName(materials[m].name)
                /\ item.fileName = materials[m].shaderName
                /\ [k \in 1..Len(item.textureParams) |-> item.textureParams[k].name]
                     = def.textureParams
                /\ [k \in 1..Len(item.vectorParams) |-> item.vectorParams[k].name]
                     = [k \in 1..Len(vectors) |-> vectors[k].name]
                /\ \A k \in 1..Len(item.vectorParams) :
                     /\ item.vectorParams[k].x = CatalogText(vectors[k].x)
                     /\ item.vectorParams[k].y = CatalogText(vectors[k].y)
                     /\ item.vectorParams[k].z = CatalogText(vectors[k].z)
                     /\ item.vectorParams[k].w = CatalogText(vectors[k].w)

\* The first material has normal.sps and got its bump slot before its
\* diffuse slot; the document lists DiffuseSampler first, and the second
\* material's item follows.
C18_Witness ==
  /\ xpc = "texture"
  /\ updates = 3
  /\ Len(materials) = 2
  /\ materials[1].shaderName = "normal.sps"
  /\ [k \in 1..Len(materials[1].textures) |-> materials[1].textures[k].key]
       = <<"BumpSampler", "DiffuseSampler">>
  /\ [k \in 1..2 |-> DocumentNow.shaders[1].textureParams[k].name]
       = <<"DiffuseSampler", "BumpSampler">>
  /\ DocumentNow.shaders[1].vectorParams[7].name = "bumpiness"
\* --------------------------------------------------------------------- C20
\* What stands for a character in escaped text.
EntityOf(c) ==
  CASE c = "&" -> Entity_amp
    [] c = "<" -> Entity_lt
    [] c = ">" -> Entity_gt
    [] c = "\"" -> Entity_quot
    [] OTHER -> <<c>>
RECURSIVE Escaped(_)
Escaped(t) == IF t = <<>> THEN <<>> ELSE EntityOf(Head(t)) \o Escaped(Tail(t))

\* An entity starts at position i of t.
EntityAt(t, i) ==
  \E e \in {Entity_amp, Entity_lt, Entity_gt, Entity_quot, <<"&", "a", "p", "o", "s", ";">>} :
     /\ i + Len(e) - 1 <= Len(t)
     /\ SubSeq(t, i, i + Len(e) - 1) = e

\* None of the given characters stands in t, but for the ampersand that
\* starts an entity.
NoneUnescaped(t, unsafe) ==
  \A i \in 1..Len(t) : t[i] \in unsafe => (t[i] = "&" /\ EntityAt(t, i))

\* The textual fields of the document written.
TextFields(doc) ==
  {doc.name, doc.textureDictionary[1].name, doc.textureDictionary[1].fileName,
   doc.shaders[1].name, Get(doc.shaders[1].textureParams[1].tex)}

\* C20 as stated: none of & < > " ' stands unescaped in a textual field.
C20_AsStated ==
  tpc = "written" =>
     \A t \in TextFields(Get(tout)) : NoneUnescaped(t, {"&", "<", ">", "\"", "'"})

\* C20: none of & < > " stands unescaped in a textual field: in the drawable
\* name each is replaced by its entity, once (an ampersand of an entity
\* written is not replaced again), and every other character, the apostrophe
\* too, stays as it is; the other fields are made of sanitized names, which
\* hold none of the five characters.
C20_EscapesFour ==
  tpc = "written" =>
     /\ \A t \in TextFields(Get(tout)) : NoneUnescaped(t, {"&", "<", ">", "\""})
     /\ Get(tout).name = Escaped(Get(tin))
     /\ \A t \in TextFields(Get(tout)) \ {Get(tout).name} :
          \A i \in 1..Len(t) : t[i] \notin {"&", "<", ">", "\"", "'"}

\* The name &<' is written &amp;&lt;' .
C20_Witness ==
  /\ tpc = "written"
  /\ Get(tin) = <<"&", "<", "'">>
  /\ Get(tout).name = <<"&", "a", "m", "p", ";", "&", "l", "t", ";", "'">>
\* ---------------------------------------------------------------- C21, C22
\* Tile n (from 1) of the output, its color block, and the numbers the
\* bytes of a color block spell.
Compressed == ipc = "compressed"
TileCount == Len(Get(iout).blocks)
TileSize == IF Get(img).format = "DXT1" THEN 8 ELSE 16
TileBytes(n) == SubSeq(Get(iout).output, (n - 1) * TileSize + 1, n * TileSize)
ColorBlock(n) == SubSeq(TileBytes(n), TileSize - 7, TileSize)
Packed0(n) == ColorBlock(n)[1] + 256 * ColorBlock(n)[2]
Packed1(n) == ColorBlock(n)[3] + 256 * ColorBlock(n)[4]
ColorIndexAt(n, i) == (ColorBlock(n)[5 + (i \div 4)] \div (4^(i % 4))) % 4
Pack565(rgb) == (rgb[1] \div 8) * 2048 + (rgb[2] \div 4) * 32 + (rgb[3] \div 8)

\* C21: in every color block the packed color at bytes 0-1 is not below the
\* one at bytes 2-3, and palette entries 0 and 1 are the 8-bit endpoints that
\* pack to the first and to the second.
C21_PackedOrder ==
  Compressed =>
     \A n \in 1..TileCount :
        /\ Packed0(n) >= Packed1(n)
        /\ Pack565(Get(iout).colors[n].palette[1]) = Packed0(n)
        /\ Pack565(Get(iout).colors[n].palette[2]) = Packed1(n)

\* A block of black and white pixels: the two packed colors differ.
C21_Witness ==
  /\ Compressed
  /\ Get(img).data[1] = Texel(0, 0, 0, 255)
  /\ Get(img).data[2] = Texel(255, 255, 255, 255)
  /\ Packed0(1) > Packed1(1)

\* The lowest-numbered entry at the smallest distance.
LowestNearest(dists) ==
  CHOOSE j \in 0..(Len(dists) - 1) :
    /\ \A k \in 0..(Len(dists) - 1) : dists[j + 1] <= dists[k + 1]
    /\ \A k \in 0..(j - 1) : dists[k + 1] > dists[j + 1]

\* C22: bits 2i and 2i+1 of the little-endian word at bytes 4-7 of a color
\* block hold the lowest-numbered palette entry at the smallest squared RGB
\* distance from texel i, for texel 15 (bits 30-31) as for the others.
C22_ColorIndices ==
  Compressed =>
     \A n \in 1..TileCount : \A i \in 0..15 :
        ColorIndexAt(n, i)
          = LowestNearest([j \in 1..4 |->
                             ColorDistance(Get(iout).blocks[n][i + 1],
                                           Get(iout).colors[n].palette[j])])

\* Texel 15 of a block takes an interpolated entry: bit 31 of the word is
\* set (byte 7 is 128 or more).
C22_Witness ==
  /\ Compressed
  /\ ColorIndexAt(1, 15) \in {2, 3}
  /\ ColorBlock(1)[8] >= 128
  /\ ColorIndexAt(1, 0) = 1

\* ---------------------------------------------------------------------- C23
\* The first 8 bytes of a 16-byte tile, bit k of the 48-bit little-endian
\* field in its bytes 2-7, and the 3-bit index of texel i in it.
AlphaBlock(n) == SubSeq(TileBytes(n), 1, 8)
AlphaBit(n, k) == (AlphaBlock(n)[3 + (k \div 8)] \div (2^(k % 8))) % 2
AlphaIndexAt(n, i) ==
  AlphaBit(n, 3 * i) + 2 * AlphaBit(n, 3 * i + 1) + 4 * AlphaBit(n, 3 * i + 2)
AlphasOf(n) == {Get(iout).blocks[n][t].a : t \in 1..16}

\* The ramp: the maximum, the minimum, and the six values at the sevenths
\* between them, each rounded to the nearest integer.
Ramp(maxA, minA) ==
  <<maxA, minA>> \o [k \in 1..6 |-> ((2 * ((7 - k) * maxA + k * minA)) + 7) \div 14]

\* C23: in the alpha-capable mode a tile is 16 bytes, the alpha block first
\* and the block's color block after it; the alpha block starts with the
\* block's largest then smallest alpha, and texel i's 3-bit index is the
\* lowest-numbered entry of the ramp nearest to the texel's alpha; the
\* indices are all 0 when the two alphas are equal.
C23_AlphaBlock ==
  (Compressed /\ Get(img).format = "DXT5") =>
     /\ Len(Get(iout).output) = 16 * TileCount
     /\ \A n \in 1..TileCount :
          LET maxA == MaxOf(AlphasOf(n))
              minA == MinOf(AlphasOf(n))
          IN /\ AlphaBlock(n)[1] = maxA
             /\ AlphaBlock(n)[2] = minA
             /\ SubSeq(TileBytes(n), 9, 16) = Get(iout).colors[n].bytes
             /\ Packed0(n) = Get(iout).colors[n].c0
             /\ \A i \in 0..15 :
                  /\ maxA > minA =>
                       AlphaIndexAt(n, i)
                         = LowestNearest([j \in 1..8 |->
                             AlphaDistance(Get(iout).blocks[n][i + 1].a,
                                           Ramp(maxA, minA)[j])])
                  /\ maxA = minA => AlphaIndexAt(n, i) = 0

\* A block with alphas 255, 0 and 128: texel 15, of alpha 128, takes an
\* interpolated entry of the ramp.
C23_Witness ==
  /\ Compressed
  /\ Get(img).format = "DXT5"
  /\ Get(img).width = 4
  /\ AlphaBlock(1)[1] = 255
  /\ AlphaBlock(1)[2] = 0
  /\ Get(img).data[16].a = 128
  /\ AlphaIndexAt(1, 15) = 4

\* ---------------------------------------------------------------------- C24
\* C24: a color block that gives some texel palette entry 2 or 3 has its
\* first packed color strictly above its second (a decoder then reads the
\* block in 4-color mode).
C24_AsStated ==
  Compressed =>
     \A n \in 1..TileCount :
        (\E i \in 0..15 : ColorIndexAt(n, i) \in {2, 3}) => Packed0(n) > Packed1(n)

\* ---------------------------------------------------------------------- C25
\* C25: in every state of the store every texture-slot key of a material is
\* a sampler its current shader declares, so every slot an export started
\* now would convert belongs to a declared sampler.
C25_AsStated ==
  /\ \A m \in 1..Len(materials) :
       KeysOf(materials[m].textures)
         \subseteq Range(ShaderMapGet(materials[m].shaderName).textureParams)
  /\ \A k \in 1..Len(FlatSlots(materials, 1)) :
       LET slot == FlatSlots(materials, 1)[k]
       IN slot.samplerName
            \in Range(ShaderMapGet(materials[slot.matIdx + 1].shaderName).textureParams)

\* ---------------------------------------------------------------------- C26
\* The exportYdr calls that have begun and neither completed nor failed.
ExportsInFlight == {j \in 1..Len(ex) : InFlight(ex[j])}

\* C26: while an exportYdr call is in flight the export button is disabled,
\* and no two calls are in flight together.
C26_AsStated ==
  /\ ExportsInFlight # {} => isExporting
  /\ Cardinality(ExportsInFlight) <= 1

\* ---------------------------------------------------------------------- C27
\* The places of the events of a step in a sequence of progress events.
PlacesOf(events, step) == {i \in 1..Len(events) : events[i].step = step}

\* C27: the progress events of one export are ordered: every percent is an
\* integer in 5..100 and none is below an earlier one; the per-texture events
\* (at most 65) come before the serializer event (70), that one before the
\* archive event (85), that one before the download event (95); 100 comes
\* at most once, last, and only once the archive was handed to saveAs.
C27_ProgressOrder ==
  \A j \in 1..Len(ex) :
     LET events == ex[j].events
         texture == PlacesOf(events, "Converting texture")
         serializer == PlacesOf(events, "Generating YDR XML...")
         archive == PlacesOf(events, "Creating ZIP archive...")
         download == PlacesOf(events, "Downloading...")
     IN /\ \A i \in 1..Len(events) : events[i].percent \in 5..100
        /\ \A i \in 1..Len(events) : \A k \in i..Len(events) :
             events[i].percent <= events[k].percent
        /\ \A i \in texture : events[i].percent <= 65
        /\ \A i \in serializer : events[i].percent = 70
        /\ \A i \in archive : events[i].percent = 85
        /\ \A i \in download : events[i].percent = 95
        /\ \A i \in texture : \A k \in serializer : i < k
        /\ \A i \in serializer : \A k \in archive \cup download : i < k
        /\ \A i \in archive : \A k \in download : i < k
        /\ (archive \cup download # {}) => serializer # {}
        /\ \A i \in 1..Len(events) :
             events[i].percent = 100 => (i = Len(events) /\ ex[j].saved # None)

\* An export of two textures that completed: 5, 35, 65, 70, 85, 95, 100.
C27_Witness ==
  \E j \in 1..Len(ex) :
     /\ ex[j].pc = "done"
     /\ [i \in 1..Len(ex[j].events) |-> ex[j].events[i].percent]
          = <<5, 35, 65, 70, 85, 95, 100>>

\* ---------------------------------------------------------------------- C29
\* C29: at every point of an export every Texture Entry accumulated has a
\* DDS file of its file name in the output list, every DDS file is the file
\* of some entry, and no two DDS files share a file name; every FileName of
\* the document's texture dictionary is a file of the package.
C29_EntriesAndFiles ==
  \A j \in 1..Len(ex) :
     LET e == ex[j]
     IN /\ \A i \in 1..Len(e.textureEntries) :
             \E k \in 1..Len(e.ddsFiles) :
                e.ddsFiles[k].fileName = e.textureEntries[i].fileName
        /\ \A k \in 1..Len(e.ddsFiles) :
             \E i \in 1..Len(e.textureEntries) :
                e.textureEntries[i].fileName = e.ddsFiles[k].fileName
        /\ \A k \in 1..Len(e.ddsFiles) : \A l \in 1..Len(e.ddsFiles) :
             e.ddsFiles[k].fileName = e.ddsFiles[l].fileName => k = l
        /\ (e.xml # None /\ e.zip # None) =>
             \A i \in 1..Len(Get(e.xml).textureDictionary) :
                \E k \in 1..Len(Get(e.zip)) :
                   Get(e.zip)[k].path
                     = e.name \o <<"/">> \o Get(e.xml).textureDictionary[i].fileName

\* A completed export whose two entries share one DDS file.
C29_Witness ==
  \E j \in 1..Len(ex) :
     /\ ex[j].pc = "done"
     /\ Len(ex[j].textureEntries) = 2
     /\ Len(ex[j].ddsFiles) = 1
     /\ Len(Get(ex[j].xml).textureDictionary) = 2

\* ---------------------------------------------------------------------- C30
\* The store's state, and what an update of material i (0-based) must leave
\* alone.
StoreState == <<parsedModel, materials, exportProgress, exportName>>
OthersKept(i) ==
  /\ Len(materials') = Len(materials)
  /\ \A m \in 1..Len(materials) : m # i + 1 => materials'[m] = materials[m]
  /\ parsedModel' = parsedModel
  /\ exportName' = exportName

\* C30: updateMaterialShader with an index that has no material or with a
\* shader outside the catalog, and updateMaterialTexture with an index that
\* has no material, leave the store's state unchanged; an update of material
\* i that is applied leaves every other material, the number of materials,
\* the parsed Model and the export name unchanged.
C30_UpdateFrame ==
  [][(\A i \in UpdateIndices, s \in UpdateShaders :
         StoreShader(i, s) =>
            IF i >= Len(materials) \/ ~ShaderMapHas(s)
            THEN StoreState' = StoreState
            ELSE OthersKept(i))
     /\
     (\A k \in UpdateIndices, n \in UpdateSamplers, d \in UpdateSlots :
         StoreTexture(k, n, d) =>
            IF k >= Len(materials)
            THEN StoreState' = StoreState
            ELSE OthersKept(k))]_vars

\* The only material holds a bump slot under default.sps and the last store
\* call was updateMaterialShader: applied, it would have pruned the slot or
\* changed the shader, so it was one that changes nothing.
C30_Witness ==
  /\ xpc = "shader"
  /\ Len(materials) = 1
  /\ materials[1].shaderName = "default.sps"
  /\ KeysOf(materials[1].textures) = {"BumpSampler"}

\* ---------------------------------------------------------------------- C28
\* The source material a partition references (none when the node has no
\* material there), and the partitions that yield a mesh, in the order of
\* the meshes.
SourceOf(node, group) ==
  LET at == IF group.materialIndex = None THEN 0 ELSE Get(group.materialIndex)
  IN IF MaterialAt(node.material, at) # None THEN MaterialAt(node.material, at)
     ELSE MaterialAt(node.material, 0)

PartitionsOfNode(node) ==
  [g \in 1..Len(GroupsOf(node)) |->
     [source |-> SourceOf(node, GroupsOf(node)[g]),
      live |-> PartitionIndices(node, GroupsOf(node)[g]) # {}]]

RECURSIVE PartitionsOf(_)
PartitionsOf(nodes) ==
  IF nodes = <<>> THEN <<>>
  ELSE (IF Head(nodes).isMesh THEN PartitionsOfNode(Head(nodes)) ELSE <<>>)
       \o PartitionsOf(Tail(nodes))

IsLive(partition) == partition.live
MeshSources == SelectSeq(PartitionsOf(Get(scene).nodes), IsLive)
Unnamed(source) == Get(source).name = <<>>

\* C28: partitions that reference the same source material get the same
\* material index; partitions that reference different source materials
\* whose names differ, or one of which has no name, get different indices;
\* the entry an unnamed material gets does not carry the name of a named
\* material of the scene.
C28_AsStated ==
  xpc \in {"returned"} \cup InStore =>
     LET sources == MeshSources
         meshes == ReturnedModel.meshes
     IN \A k \in 1..Len(meshes) : \A l \in 1..Len(meshes) :
          (sources[k].source # None /\ sources[l].source # None) =>
             /\ sources[k].source = sources[l].source =>
                  meshes[k].materialIndex = meshes[l].materialIndex
             /\ (/\ Get(sources[k].source).id # Get(sources[l].source).id
                 /\ \/ Get(sources[k].source).name # Get(sources[l].source).name
                    \/ Unnamed(sources[k].source)) =>
                  meshes[k].materialIndex # meshes[l].materialIndex
             /\ (Unnamed(sources[k].source) /\ ~Unnamed(sources[l].source)) =>
                  ReturnedModel.materialNames[meshes[k].materialIndex + 1]
                    # Get(sources[l].source).name

====
